---- MODULE Spec2Model ----
(***************************************************************************)
(* Task lifecycle and concurrency manager of browser-use-local-bridge.     *)
(*                                                                         *)
(* The model follows core/tasks.py (TaskManager), models/task.py (Task)    *)
(* and core/storage.py (TaskStorage).  Everything runs on one asyncio      *)
(* event loop, so an action is the code executed between two real          *)
(* suspension points:                                                      *)
(*   - start_task, pause_task and resume_task contain no await;            *)
(*   - stop_task awaits _cleanup_task_resources, which suspends only in    *)
(*     browser_session.close(); the session it passes is always None       *)
(*     (create_task never sets browser_session_config, so line 279 stores  *)
(*     None), hence stop_task runs without yielding;                       *)
(*   - _execute_task suspends at asyncio.wait_for (line 301): the hook and *)
(*     controller builders are not awaited for tasks made by create_task   *)
(*     and the construction semaphore is never held across an await.       *)
(*                                                                         *)
(* Timestamps are abstracted to write counters: started_at / finished_at   *)
(* hold the number of assignments made to the field (0 is None), and       *)
(* execution_time_seconds holds the two values it was computed from.       *)
(***************************************************************************)
EXTENDS Integers, Sequences, FiniteSets, TLC

\* ---------------------------------------------------------------- bounds
NumTasks == 2
TaskIds == 1..NumTasks
Users == {"u1", "u2"}

\* settings.MAX_CONCURRENT_TASKS, the admission ceiling (configurable)
max_concurrent_tasks == 1

\* ---------------------------------------------------------------- values
CREATED == "CREATED"
RUNNING == "RUNNING"
FINISHED == "FINISHED"
STOPPED == "STOPPED"
PAUSED == "PAUSED"
FAILED == "FAILED"
STOPPING == "STOPPING"

TaskStatus == {CREATED, RUNNING, FINISHED, STOPPED, PAUSED, FAILED, STOPPING}

None == "None"

VARIABLES
    tasks,            \* TaskStorage._tasks: task id -> Task (ids are unique uuids)
    active_tasks,     \* TaskManager.active_tasks: ids that have an entry
    browser_sessions, \* TaskManager.browser_sessions: ids that have an entry (value None)
    task_agents,      \* TaskManager.task_agents: ids that have an entry
    unit,             \* the asyncio.Task running _execute_task for each id
    cleanup_runs,     \* number of executions of _cleanup_task_resources per id
    background_tasks, \* start calls the create-and-run endpoint has scheduled and not yet run
    semaphore,        \* TaskManager._agent_creation_semaphore: its value (1 is free)
    current_lifecycle_hooks, \* TaskManager._current_lifecycle_hooks (absent is empty)
    ceiling,          \* TaskManager.max_concurrent_tasks
    last              \* the manager call made by the last step and its outcome

vars == <<tasks, active_tasks, browser_sessions, task_agents, unit, cleanup_runs,
          background_tasks, semaphore, current_lifecycle_hooks, ceiling, last>>

\* the attributes of the manager that only a unit's construction writes
construction == <<semaphore, current_lifecycle_hooks, ceiling>>

\* ---------------------------------------------------------------- Task entity
TaskStep(action, error) == [action |-> action, error |-> error]

\* ---------------------------------------------------------------- configuration
\* AgentConfig, the fields the construction of a unit reads:
\*   sensitive_data    the domains secrets are declared for
\*   lifecycle_hooks   the declared hooks
\*   controller_config whether one is present (not None) and whether it
\*                     carries an output_model_schema
NoControllerConfig == [present |-> FALSE, output_model_schema |-> FALSE]
AgentConfig ==
    [sensitive_data |-> {}, lifecycle_hooks |-> {}, controller_config |-> NoControllerConfig]

\* BrowserConfig, the field the sensitive-data validation reads; None and the
\* empty list are both false at line 199
\* The legacy flat configuration also carries headless (a bool, default True)
\* and the viewport (default width 1920).
BrowserConfig == [allowed_domains |-> {}, headless |-> "True", viewport_width |-> 1920]

\* BrowserProfile(): headless and viewport are None unless given (a viewport
\* of None is written 0)
BrowserProfile == [headless |-> None, viewport_width |-> 0]

\* BrowserConfig.to_browser_profile
to_browser_profile(browser_config) ==
    [headless |-> browser_config.headless, viewport_width |-> browser_config.viewport_width]

\* a pydantic model defines neither __bool__ nor __len__: every instance is true
truthy(model) == TRUE

\* two declared hooks
HookA == [hook_type |-> "on_step_start", implementation_type |-> "webhook", continue_on_error |-> TRUE]
HookB == [hook_type |-> "on_step_end", implementation_type |-> "code", continue_on_error |-> FALSE]

\* allowed_domains patterns: a domain, or "*." before a base domain
\* Domains and patterns are texts, written as the sequence of their
\* characters; "://" is written as one character.
Exact(domain) == domain
Wildcard(domain) == <<"*", ".">> \o domain

example_com == <<"a", ".", "b">>
sub_example_com == <<"b", ".">> \o example_com
other_com == <<"b", ".", "b">>

\* the configurations a stored Task can carry (Task.agent_config and
\* Task.browser_config are fields of the entity): none; secrets declared
\* with no allowed domains, with a pattern that covers them, with a wildcard
\* that covers them, with a pattern that does not; hooks; a controller
\* configuration without and with an output schema
SensitiveConfigs ==
    {[agent_config |-> [AgentConfig EXCEPT !.sensitive_data = sd],
      browser_config |-> [BrowserConfig EXCEPT !.allowed_domains = ad]] :
        <<sd, ad>> \in {<<{example_com}, {}>>,
                        <<{example_com}, {Exact(example_com)}>>,
                        <<{sub_example_com}, {Wildcard(example_com)}>>,
                        <<{example_com}, {Exact(other_com)}>>}}

HookConfigs ==
    {[agent_config |-> [AgentConfig EXCEPT !.lifecycle_hooks = hooks],
      browser_config |-> BrowserConfig] : hooks \in {{HookA}, {HookB}}}

ControllerConfigs ==
    {[agent_config |-> [AgentConfig EXCEPT !.controller_config =
                            [present |-> TRUE, output_model_schema |-> schema]],
      browser_config |-> BrowserConfig] : schema \in BOOLEAN}

DefaultConfig == [agent_config |-> AgentConfig, browser_config |-> BrowserConfig]

\* ---------------------------------------------------------------- LLM provider
\* settings.DEFAULT_LLM_PROVIDER, settings.DEFAULT_MODEL
DEFAULT_LLM_PROVIDER == "openai"
DEFAULT_MODEL == "gpt-4o-mini"

\* names get_available_providers reports on (two of its seven), and a name
\* it does not know
KnownProviders == {"openai", "anthropic"}
Providers == KnownProviders \cup {"other"}
Models == {"gpt-4o", "claude-3", "llama3"}

\* LLMConfig(): the field defaults, used when the request carries no llm_config
LLMConfig == [provider |-> "openai", model |-> "gpt-4o"]

\* the llm_config a request can carry
LLMConfigs == [provider : Providers, model : Models]

\* what get_available_providers can return: for each name it knows, whether
\* its key is set (and its package installed) in the environment it reads
AvailableProviders == [KnownProviders -> BOOLEAN]

AllConfigured == [p \in KnownProviders |-> TRUE]

\* a provider counts as valid as soon as get_available_providers lists it
validate_provider_config_listed(provider, available_providers) ==
    provider \in DOMAIN available_providers

\* available_providers.get(provider, False)
validate_provider_config(provider, available_providers) ==
    IF provider \in DOMAIN available_providers
        THEN available_providers[provider]
        ELSE FALSE

\* Task(...) as constructed by create_task, field defaults of models/task.py
\* (finished_at - started_at).total_seconds(), kept as the two values it was
\* computed from; None is the difference of no values
duration(finished_at, started_at) == [finished_at |-> finished_at, started_at |-> started_at]
NoDuration == duration(0, 0)

NewTask(user_id, llm_config) ==
    [user_id |-> user_id, llm_config |-> llm_config,
     agent_config |-> AgentConfig, browser_config |-> BrowserConfig,
     browser_profile |-> BrowserProfile,
     status |-> CREATED, steps |-> <<>>,
     result |-> None, error |-> None, history |-> {},
     started_at |-> 0, finished_at |-> 0, execution_time_seconds |-> NoDuration,
     progress_percentage |-> 0, can_pause |-> TRUE]

add_step(task, action, error) ==
    [task EXCEPT !.steps = Append(@, TaskStep(action, error))]

update_progress(task, percentage) ==
    [task EXCEPT !.progress_percentage =
        IF percentage < 0 THEN 0 ELSE IF percentage > 100 THEN 100 ELSE percentage]

\* set_status that computes the execution time only while it is not yet set
set_status_duration_once(task, status) ==
    LET t1 == [task EXCEPT !.status = status] IN
    IF status = RUNNING /\ task.started_at = 0
        THEN [t1 EXCEPT !.started_at = 1]
    ELSE IF status \in {FINISHED, FAILED, STOPPED}
        THEN [t1 EXCEPT !.finished_at = @ + 1,
                        !.execution_time_seconds =
                            IF task.started_at # 0 /\ @ = NoDuration
                                THEN duration(task.finished_at + 1, task.started_at)
                                ELSE @]
    ELSE t1

set_status(task, status) ==
    LET t1 == [task EXCEPT !.status = status] IN
    IF status = RUNNING /\ task.started_at = 0
        THEN [t1 EXCEPT !.started_at = 1]
    ELSE IF status \in {FINISHED, FAILED, STOPPED}
        THEN [t1 EXCEPT !.finished_at = @ + 1,
                        !.execution_time_seconds =
                            IF task.started_at # 0
                                THEN duration(task.finished_at + 1, task.started_at)
                                ELSE @]
    ELSE t1

is_active_paused(task) == task.status \in {RUNNING, STOPPING, PAUSED}
is_active(task) == task.status \in {RUNNING, STOPPING}

is_completed(task) == task.status \in {FINISHED, FAILED, STOPPED}

\* ---------------------------------------------------------------- TaskStorage
\* get_task returns the Task, or None when the id is not stored under the user
has_task_any_user(user_id, task_id) == task_id \in DOMAIN tasks

has_task(user_id, task_id) ==
    task_id \in DOMAIN tasks /\ tasks[task_id].user_id = user_id

get_task(user_id, task_id) == tasks[task_id]

\* add_task: ids are handed out in order, so the store is a sequence
add_task(task) == Append(tasks, task)

\* ---------------------------------------------------------------- units
\* no result object: the run has not returned one
\* the accessors of the run's history: urls(), action_names(), is_done(),
\* has_errors(), errors(); each is absent, raises or returns a value
HistoryFields == {"urls", "action_names", "is_done", "has_errors", "errors"}
NoHistory == [f \in HistoryFields |-> "absent"]
FullHistory == [f \in HistoryFields |-> "value"]

NoResult == [truthy |-> FALSE, final_result |-> "absent", extracted_content |-> "absent",
             history |-> NoHistory]

\* pc is the position of _execute_task, run_begun and hooks belong to the
\* run made by asyncio.wait_for: whether _run_agent_with_monitoring has
\* started and the hooks it put into the keyword arguments of agent.run
\* controller is the local of that name, None or the Controller made.
\* result is what agent.run returned when the outcome is "result".
NoUnit == [pc |-> "none", must_cancel |-> FALSE, outcome |-> None, result |-> NoResult,
           controller |-> None, run_begun |-> FALSE, hooks |-> {}]

\* the run has ended with an outcome: its frame is gone
RunEnded(u, outcome) ==
    [u EXCEPT !.pc = "run_done", !.outcome = outcome, !.run_begun = FALSE, !.hooks = {}]

\* the coroutine has ended: its frame, and that of its run, are gone
Terminated(u) ==
    [u EXCEPT !.pc = "done", !.result = NoResult, !.controller = None,
              !.run_begun = FALSE, !.hooks = {}]

\* asyncio.Task.done()
done(task_id) == unit[task_id].pc \in {"none", "done"}

\* a unit that was spawned and has not terminated
Live(task_id) ==
    unit[task_id].pc \in {"spawned", "gate_wait", "constructing", "waiting", "run_done"}

\* len([t for t in self.active_tasks.values() if not t.done()])
active_count == Cardinality({i \in active_tasks : ~done(i)})

AtCeiling_off_by_one == active_count > ceiling
AtCeiling == active_count >= ceiling

\* ---------------------------------------------------------------- cleanup
\* _cleanup_task_resources(task_id, browser_session, agent): the three pops.
\* browser_session is None at both call sites, so close() is never awaited.
cleanup_sessions(task_id, browser_session) ==
    IF browser_session # None THEN browser_sessions \ {task_id} ELSE browser_sessions

cleanup_agents(task_id, agent) ==
    IF agent # None THEN task_agents \ {task_id} ELSE task_agents

cleanup_active_keep(task_id) == active_tasks
cleanup_active(task_id) == active_tasks \ {task_id}

\* close() raised: control went to the handler of line 1023, no pop was made
Cleanup_aborted(task_id, browser_session, agent) ==
    /\ UNCHANGED <<browser_sessions, task_agents, active_tasks>>
    /\ cleanup_runs' = [cleanup_runs EXCEPT ![task_id] = @ + 1]

\* The pops are made in one try block after browser_session.close(): when
\* close() raises, the handler of line 1023 logs and the pops are skipped.
Cleanup(task_id, browser_session, agent) ==
    \E close_raises \in BOOLEAN :
        IF browser_session # None /\ close_raises THEN
            /\ UNCHANGED <<browser_sessions, task_agents, active_tasks>>
            /\ cleanup_runs' = [cleanup_runs EXCEPT ![task_id] = @ + 1]
        ELSE
            /\ browser_sessions' = cleanup_sessions(task_id, browser_session)
            /\ task_agents' = cleanup_agents(task_id, agent)
            /\ active_tasks' = cleanup_active(task_id)
            /\ cleanup_runs' = [cleanup_runs EXCEPT ![task_id] = @ + 1]

\* ---------------------------------------------------------------- responses
Response(op, user_id, task_id, result) ==
    [op |-> op, user |-> user_id, task |-> task_id, result |-> result]

NoCall == Response("none", None, 0, None)

Init ==
    /\ tasks = <<>>
    /\ active_tasks = {}
    /\ browser_sessions = {}
    /\ task_agents = {}
    /\ unit = [i \in TaskIds |-> NoUnit]
    /\ cleanup_runs = [i \in TaskIds |-> 0]
    /\ background_tasks = {}
    /\ semaphore = 1
    /\ current_lifecycle_hooks = {}
    /\ ceiling = max_concurrent_tasks
    /\ last = NoCall

\* ---------------------------------------------------------------- TaskManager
\* create_task: a fresh id, stored CREATED with a "created" step; the
\* requested provider is validated against the environment and replaced,
\* with the model, by the configured defaults when it is not valid
CreateTask(user_id, llm_config, available_providers) ==
    /\ Len(tasks) < NumTasks
    /\ LET task_id == Len(tasks) + 1
           task == NewTask(user_id, llm_config)
           validated ==
               IF ~validate_provider_config(task.llm_config.provider, available_providers)
                   THEN [task EXCEPT !.llm_config.provider = DEFAULT_LLM_PROVIDER,
                                     !.llm_config.model = DEFAULT_MODEL]
                   ELSE task
       IN
        /\ tasks' = add_task(add_step(validated, "created", None))
        /\ last' = Response("create", user_id, task_id, "ok")
    /\ UNCHANGED <<active_tasks, browser_sessions, task_agents, unit, cleanup_runs>>

\* TaskCreate by its browser fields: each is optional (has_config,
\* has_profile say whether it was given)
TaskCreates ==
    [has_config : BOOLEAN,
     browser_config : {[BrowserConfig EXCEPT !.headless = h, !.viewport_width = w] :
                          h \in {"True", "False"}, w \in {1920, 800}},
     has_profile : BOOLEAN,
     browser_profile : [headless : {None, "True", "False"}, viewport_width : {0, 1280}]]

\* create_task, lines 50-56: the Task is built from the request's task text,
\* browser_config (or a default BrowserConfig), llm_config and metadata
create_task(user_id, task_create) ==
    [NewTask(user_id, LLMConfig) EXCEPT
        !.browser_config = IF task_create.has_config
                              THEN task_create.browser_config ELSE BrowserConfig]

\* create_task for a request with browser settings
CreateTaskRequest(user_id, task_create) ==
    /\ Len(tasks) < NumTasks
    /\ tasks' = add_task(add_step(create_task(user_id, task_create), "created", None))
    /\ last' = Response("create", user_id, Len(tasks) + 1, "ok")
    /\ UNCHANGED <<active_tasks, browser_sessions, task_agents, unit, cleanup_runs,
                   background_tasks, construction>>

\* lines 217-227 of _execute_task: the profile the Agent is built with
resolve_browser_profile(task) ==
    IF truthy(task.browser_profile) THEN task.browser_profile
    ELSE IF truthy(task.browser_config) THEN to_browser_profile(task.browser_config)
    ELSE BrowserProfile

\* TaskStorage.add_task with a Task that carries a configuration: the entity
\* as create_task builds it, its agent_config and browser_config given
AddTask(user_id, config) ==
    /\ Len(tasks) < NumTasks
    /\ LET task == [NewTask(user_id, LLMConfig) EXCEPT
                        !.agent_config = config.agent_config,
                        !.browser_config = config.browser_config]
       IN tasks' = add_task(add_step(task, "created", None))
    /\ last' = Response("add_task", user_id, Len(tasks) + 1, "ok")
    /\ UNCHANGED <<active_tasks, browser_sessions, task_agents, unit, cleanup_runs,
                   background_tasks, construction>>

\* start_task without the status check of lines 84-85
StartTask_any_status(user_id, task_id) ==
    LET task == get_task(user_id, task_id) IN
    IF ~has_task(user_id, task_id) THEN
        /\ last' = Response("start", user_id, task_id, "not_found")
        /\ UNCHANGED <<tasks, active_tasks, browser_sessions, task_agents, unit, cleanup_runs, background_tasks, construction>>
    ELSE IF AtCeiling THEN
        /\ last' = Response("start", user_id, task_id, "resource_exhausted")
        /\ UNCHANGED <<tasks, active_tasks, browser_sessions, task_agents, unit, cleanup_runs, background_tasks, construction>>
    ELSE
        /\ unit' = [unit EXCEPT ![task_id] = [NoUnit EXCEPT !.pc = "spawned"]]
        /\ active_tasks' = active_tasks \cup {task_id}
        /\ tasks' = [tasks EXCEPT ![task_id] = add_step(set_status(task, RUNNING), "started", None)]
        /\ last' = Response("start", user_id, task_id, "ok")
        /\ UNCHANGED <<browser_sessions, task_agents, cleanup_runs, background_tasks, construction>>

\* start_task, called by op: the start endpoint ("start") or the background
\* work of the create-and-run endpoint ("background_start")
start_task(user_id, task_id, op) ==
    LET task == get_task(user_id, task_id) IN
    IF ~has_task(user_id, task_id) THEN
        /\ last' = Response(op, user_id, task_id, "not_found")
        /\ UNCHANGED <<tasks, active_tasks, browser_sessions, task_agents, unit, cleanup_runs>>
    ELSE IF task.status # CREATED THEN
        /\ last' = Response(op, user_id, task_id, "invalid_transition")
        /\ UNCHANGED <<tasks, active_tasks, browser_sessions, task_agents, unit, cleanup_runs>>
    ELSE IF AtCeiling THEN
        /\ last' = Response(op, user_id, task_id, "resource_exhausted")
        /\ UNCHANGED <<tasks, active_tasks, browser_sessions, task_agents, unit, cleanup_runs>>
    ELSE
        /\ unit' = [unit EXCEPT ![task_id] = [NoUnit EXCEPT !.pc = "spawned"]]
        /\ active_tasks' = active_tasks \cup {task_id}
        /\ tasks' = [tasks EXCEPT ![task_id] = add_step(set_status(task, RUNNING), "started", None)]
        /\ last' = Response(op, user_id, task_id, "ok")
        /\ UNCHANGED <<browser_sessions, task_agents, cleanup_runs>>

\* the start endpoint: awaits start_task and hands its outcome to the client
StartTask(user_id, task_id) ==
    /\ start_task(user_id, task_id, "start")
    /\ UNCHANGED <<background_tasks, construction>>

\* create_and_run_task: create_task, then start_task for the new id handed to
\* BackgroundTasks, which runs it once the response has been sent
CreateAndRunTask(user_id, llm_config, available_providers) ==
    /\ CreateTask(user_id, llm_config, available_providers)
    /\ background_tasks' = background_tasks \cup {<<user_id, Len(tasks) + 1>>}
    /\ UNCHANGED construction

\* a scheduled start that stays scheduled when admission control rejects it
BackgroundStart_retrying(user_id, task_id) ==
    /\ <<user_id, task_id>> \in background_tasks
    /\ start_task(user_id, task_id, "background_start")
    /\ background_tasks' = IF last'.result = "resource_exhausted"
                              THEN background_tasks
                              ELSE background_tasks \ {<<user_id, task_id>>}
    /\ UNCHANGED construction

\* the scheduled start_task runs; an HTTPException it raises goes to nobody
BackgroundStart(user_id, task_id) ==
    /\ <<user_id, task_id>> \in background_tasks
    /\ background_tasks' = background_tasks \ {<<user_id, task_id>>}
    /\ UNCHANGED construction
    /\ start_task(user_id, task_id, "background_start")

\* stop_task without the cancel() of lines 1037-1038
StopTask_no_cancel(user_id, task_id) ==
    LET task == get_task(user_id, task_id) IN
    IF ~has_task(user_id, task_id) THEN
        /\ last' = Response("stop", user_id, task_id, "not_found")
        /\ UNCHANGED <<background_tasks, construction>>
        /\ UNCHANGED <<tasks, active_tasks, browser_sessions, task_agents, unit, cleanup_runs>>
    ELSE IF ~is_active(task) THEN
        /\ last' = Response("stop", user_id, task_id, "invalid_transition")
        /\ UNCHANGED <<background_tasks, construction>>
        /\ UNCHANGED <<tasks, active_tasks, browser_sessions, task_agents, unit, cleanup_runs>>
    ELSE
        /\ unit' = unit
        /\ LET stopping == add_step(set_status(task, STOPPING), "stopping", None)
               agent == IF task_id \in task_agents THEN "Agent" ELSE None
           IN /\ Cleanup(task_id, None, agent)
              /\ tasks' = [tasks EXCEPT ![task_id] =
                              add_step(set_status(stopping, STOPPED), "stopped", None)]
        /\ last' = Response("stop", user_id, task_id, "ok")
        /\ UNCHANGED <<background_tasks, construction>>

\* stop_task
StopTask(user_id, task_id) ==
    LET task == get_task(user_id, task_id) IN
    IF ~has_task(user_id, task_id) THEN
        /\ last' = Response("stop", user_id, task_id, "not_found")
        /\ UNCHANGED <<background_tasks, construction>>
        /\ UNCHANGED <<tasks, active_tasks, browser_sessions, task_agents, unit, cleanup_runs>>
    ELSE IF ~is_active(task) THEN
        /\ last' = Response("stop", user_id, task_id, "invalid_transition")
        /\ UNCHANGED <<background_tasks, construction>>
        /\ UNCHANGED <<tasks, active_tasks, browser_sessions, task_agents, unit, cleanup_runs>>
    ELSE
        \* self.active_tasks[task_id].cancel(): no effect on a finished unit
        /\ unit' = IF task_id \in active_tasks /\ ~done(task_id)
                     THEN [unit EXCEPT ![task_id].must_cancel = TRUE]
                     ELSE unit
        /\ LET stopping == add_step(set_status(task, STOPPING), "stopping", None)
               \* self.browser_sessions.get(task_id): absent, or the None stored at line 279
               browser_session == None
               agent == IF task_id \in task_agents THEN "Agent" ELSE None
           IN /\ Cleanup(task_id, browser_session, agent)
              /\ tasks' = [tasks EXCEPT ![task_id] =
                              add_step(set_status(stopping, STOPPED), "stopped", None)]
        /\ last' = Response("stop", user_id, task_id, "ok")
        /\ UNCHANGED <<background_tasks, construction>>

\* pause_task that also takes the unit out of the in-flight set
PauseTask_releasing(user_id, task_id) ==
    LET task == get_task(user_id, task_id) IN
    IF ~has_task(user_id, task_id) THEN
        /\ last' = Response("pause", user_id, task_id, "not_found")
        /\ UNCHANGED <<background_tasks, construction>>
        /\ UNCHANGED <<tasks, active_tasks, browser_sessions, task_agents, unit, cleanup_runs>>
    ELSE IF task.status # RUNNING \/ ~task.can_pause THEN
        /\ last' = Response("pause", user_id, task_id, "invalid_transition")
        /\ UNCHANGED <<background_tasks, construction>>
        /\ UNCHANGED <<tasks, active_tasks, browser_sessions, task_agents, unit, cleanup_runs>>
    ELSE
        /\ tasks' = [tasks EXCEPT ![task_id] = add_step(set_status(task, PAUSED), "paused", None)]
        /\ active_tasks' = active_tasks \ {task_id}
        /\ last' = Response("pause", user_id, task_id, "ok")
        /\ UNCHANGED <<background_tasks, construction>>
        /\ UNCHANGED <<browser_sessions, task_agents, unit, cleanup_runs>>

\* pause_task
PauseTask(user_id, task_id) ==
    LET task == get_task(user_id, task_id) IN
    IF ~has_task(user_id, task_id) THEN
        /\ last' = Response("pause", user_id, task_id, "not_found")
        /\ UNCHANGED <<background_tasks, construction>>
        /\ UNCHANGED <<tasks, active_tasks, browser_sessions, task_agents, unit, cleanup_runs>>
    ELSE IF task.status # RUNNING \/ ~task.can_pause THEN
        /\ last' = Response("pause", user_id, task_id, "invalid_transition")
        /\ UNCHANGED <<background_tasks, construction>>
        /\ UNCHANGED <<tasks, active_tasks, browser_sessions, task_agents, unit, cleanup_runs>>
    ELSE
        /\ tasks' = [tasks EXCEPT ![task_id] = add_step(set_status(task, PAUSED), "paused", None)]
        /\ last' = Response("pause", user_id, task_id, "ok")
        /\ UNCHANGED <<background_tasks, construction>>
        /\ UNCHANGED <<active_tasks, browser_sessions, task_agents, unit, cleanup_runs>>

\* resume_task: the status check and the update are nested under
\* "if not task:" after its raise (lines 1096-1104), so they never execute
ResumeTask(user_id, task_id) ==
    LET task == get_task(user_id, task_id) IN
    IF ~has_task(user_id, task_id) THEN
        /\ last' = Response("resume", user_id, task_id, "not_found")
        /\ UNCHANGED <<background_tasks, construction>>
        /\ UNCHANGED <<tasks, active_tasks, browser_sessions, task_agents, unit, cleanup_runs>>
    ELSE
        /\ last' = Response("resume", user_id, task_id, "ok")
        /\ UNCHANGED <<background_tasks, construction>>
        /\ UNCHANGED <<tasks, active_tasks, browser_sessions, task_agents, unit, cleanup_runs>>

\* ---------------------------------------------------------------- queries
Frame == <<tasks, active_tasks, browser_sessions, task_agents, unit, cleanup_runs,
           background_tasks, construction>>

\* get_task_status that records the query as a step of the task
GetTaskStatus_recording(user_id, task_id) ==
    /\ last' = Response("get_task_status", user_id, task_id,
                        IF ~has_task(user_id, task_id) THEN "not_found"
                        ELSE get_task(user_id, task_id).status)
    /\ tasks' = IF has_task(user_id, task_id)
                  THEN [tasks EXCEPT ![task_id] =
                           add_step(get_task(user_id, task_id), "status", None)]
                  ELSE tasks
    /\ UNCHANGED <<active_tasks, browser_sessions, task_agents, unit, cleanup_runs,
                   background_tasks, construction>>

\* get_task_status: the stored status, or 404 when the id is not the user's
GetTaskStatus(user_id, task_id) ==
    /\ last' = Response("get_task_status", user_id, task_id,
                        IF ~has_task(user_id, task_id) THEN "not_found"
                        ELSE get_task(user_id, task_id).status)
    /\ UNCHANGED Frame

\* user_tasks[start:end]: Python's slice of a list, for 0 <= start
slice(list, start, end) ==
    SubSeq(list, start + 1, IF end < Len(list) THEN end ELSE Len(list))

\* TaskStorage.list_tasks: the user's tasks in insertion order, one page
storage_list_tasks(user_id, page, page_size) ==
    LET ids == [i \in 1..Len(tasks) |-> i]
        owned(i) == tasks[i].user_id = user_id
        user_tasks == SelectSeq(ids, owned)
        start == (page - 1) * page_size
        end == start + page_size
    IN slice(user_tasks, start, end)

\* TaskManager.list_tasks: the page, then the status filter when one is given
list_tasks(user_id, page, page_size, status_filter) ==
    LET page_tasks == storage_list_tasks(user_id, page, page_size)
        matches(i) == tasks[i].status = status_filter
    IN IF status_filter # None THEN SelectSeq(page_tasks, matches) ELSE page_tasks

Pages == 1..2
PageSizes == 1..2
StatusFilters == {None, CREATED, RUNNING}

ListTasks(user_id, page, page_size, status_filter) ==
    /\ last' = Response("list_tasks", user_id, 0,
                        list_tasks(user_id, page, page_size, status_filter))
    /\ UNCHANGED Frame

\* get_system_stats: the units of the in-flight set that are not done, the
\* ceiling and the number of session entries
get_system_stats ==
    [active_tasks |-> Cardinality({i \in active_tasks : ~done(i)}),
     max_concurrent_tasks |-> ceiling,
     total_browser_sessions |-> Cardinality(browser_sessions)]

GetSystemStats ==
    /\ last' = Response("get_system_stats", None, 0, get_system_stats)
    /\ UNCHANGED Frame

\* ---------------------------------------------------------------- Execution Unit
\* a call either returns a value or raises an exception
Return(value) == [kind |-> "return", value |-> value]
Raise(type, message) == [kind |-> "raise", value |-> [type |-> type, message |-> message]]

\* str(e) of the exception raised by create_llm / by the agent construction,
\* and the texts _execute_task derives from them
LLM_EXCEPTION == "llm exception"
AGENT_EXCEPTION == "agent exception"
FATAL_ERROR == "Unexpected error during task execution: llm exception"
AGENT_ERROR == "Agent creation failed: agent exception"
NO_RESULT_ERROR == "Agent returned no result"
ENGINE_ERROR == "engine error"
TIMEOUT_ERROR == "Task timed out"

Outcomes == {"result", "no_result", "exception"}

\* What agent.run returned, as _execute_task looks at it:
\*   truthy             bool(result)
\*   final_result       what result.final_result() does: the attribute is
\*                      absent, the call raises, or it returns None, a text
\*                      that is no JSON, a JSON text of the declared
\*                      structured form, a JSON text of another form, or an
\*                      object that is no string
\*   extracted_content  what result.extracted_content() does: absent,
\*                      raises, returns an empty value or returns content
ABSENT == "absent"
RAISES == "raises"
PLAIN_TEXT == "final_result"
STRUCTURED_JSON == "{\"title\": \"t\"}"
OTHER_JSON == "42"
OBJECT == "object"
FinalResults == {ABSENT, RAISES, None, PLAIN_TEXT, STRUCTURED_JSON, OTHER_JSON, OBJECT}
ExtractedContents == {ABSENT, RAISES, "", "extracted_content"}
Results == [truthy : BOOLEAN, final_result : FinalResults, extracted_content : ExtractedContents,
            history : {FullHistory}]

\* the result of a run whose engine answers with a plain text
PlainResult == [truthy |-> TRUE, final_result |-> PLAIN_TEXT, extracted_content |-> "extracted_content",
                history |-> FullHistory]

STR_RESULT == "str(result)"
NO_RESULT_RETURNED == "No result returned from agent"

\* isinstance(final_result, str)
is_str(value) == value \in {PLAIN_TEXT, STRUCTURED_JSON, OTHER_JSON}

\* json.loads: the parsed value of a JSON text, JSONDecodeError otherwise
json_loads(text) ==
    CASE text = STRUCTURED_JSON -> Return("dict(title='t')")
      [] text = OTHER_JSON -> Return("int(42)")
      [] OTHER -> Raise("JSONDecodeError", "Expecting value")

\* lines 313-350: the result stored and the steps added, by the accessors of
\* the result object
extract_result(task, controller, result) ==
    IF result.final_result # ABSENT THEN
        IF result.final_result = RAISES THEN
            \* the handler of line 347
            [task EXCEPT !.result = STR_RESULT]
        ELSE IF task.agent_config.controller_config.present /\ controller # None THEN
            IF is_str(result.final_result) THEN
                LET parsed == json_loads(result.final_result) IN
                IF parsed.kind = "return"
                    THEN add_step([task EXCEPT !.result = parsed.value],
                                  "structured_output", None)
                    ELSE add_step([task EXCEPT !.result = result.final_result],
                                  "structured_output_warning", None)
            ELSE [task EXCEPT !.result = result.final_result]
        ELSE [task EXCEPT !.result = result.final_result]
    ELSE IF result.extracted_content # ABSENT THEN
        IF result.extracted_content = RAISES THEN
            [task EXCEPT !.result = STR_RESULT]
        ELSE IF result.extracted_content # ""
            THEN [task EXCEPT !.result = result.extracted_content]
            ELSE [task EXCEPT !.result = STR_RESULT]
    ELSE [task EXCEPT !.result = STR_RESULT]

\* lines 310-370: a result that is false is not looked into
\* lines 352-368: the fields whose accessors exist are read in one try block;
\* when one raises, the handler of line 366 stores an empty history
extract_history(task, result) ==
    IF \E f \in HistoryFields : result.history[f] = RAISES
        THEN [task EXCEPT !.history = {}]
        ELSE [task EXCEPT !.history = {f \in HistoryFields : result.history[f] # ABSENT}]

process_results(task, controller, result) ==
    IF result.truthy
        THEN extract_history(extract_result(task, controller, result), result)
        ELSE [task EXCEPT !.result = NO_RESULT_RETURNED]

\* lines 378-381
finished(task) ==
    update_progress(add_step(set_status(task, FINISHED), "completed", None), 100)

\* lines 310-381: the run returned result to a unit holding controller
CompletedWith(task, controller, result) ==
    finished(process_results(task, controller, result))

\* the run of a task without configuration returned a plain text
Completed(task) == CompletedWith(task, None, PlainResult)

\* the timeout handled like any other exception of the run
TimedOut_generic(task) ==
    add_step(set_status([task EXCEPT !.error = ENGINE_ERROR], FAILED),
             "error", ENGINE_ERROR)

\* the timeout handler leaving the task as it is
TimedOut_unrecorded(task) == task

\* lines 389-393
TimedOut(task) ==
    add_step(set_status([task EXCEPT !.error = TIMEOUT_ERROR], FAILED),
             "timeout", TIMEOUT_ERROR)

\* the handler sets the error and the status and records no step
Errored_no_step(task, error_msg) ==
    set_status([task EXCEPT !.error = error_msg], FAILED)

\* lines 395-409
Errored(task, error_msg) ==
    add_step(set_status([task EXCEPT !.error = error_msg], FAILED),
             "error", error_msg)

\* what _execute_task does with the outcome of asyncio.wait_for (lines 301-409):
\* "timeout" is the TimeoutError wait_for raises when its timer fires,
\* "timeout_error" a TimeoutError the run itself raised; `except
\* asyncio.TimeoutError` (line 389) catches both
AfterRun(task, u) ==
    CASE u.outcome = "result" -> CompletedWith(task, u.controller, u.result)
      [] u.outcome = "no_result" -> Errored(task, NO_RESULT_ERROR)
      [] u.outcome = "exception" -> Errored(task, ENGINE_ERROR)
      [] u.outcome = "timeout" -> TimedOut(task)
      [] u.outcome = "timeout_error" -> TimedOut(task)

\* A unit cancelled before its first step: asyncio throws CancelledError into
\* the coroutine before its body starts, so neither the try nor the finally
\* of _execute_task is entered.
UnitCancelledUnstarted(task_id) ==
    /\ unit[task_id].pc = "spawned"
    /\ unit[task_id].must_cancel
    /\ unit' = [unit EXCEPT ![task_id] = Terminated(@)]
    /\ last' = NoCall
    /\ UNCHANGED <<background_tasks, construction>>
    /\ UNCHANGED <<tasks, active_tasks, browser_sessions, task_agents, cleanup_runs>>

\* str.startswith, str.endswith
startswith(text, prefix) ==
    Len(prefix) <= Len(text) /\ SubSeq(text, 1, Len(prefix)) = prefix

endswith(text, suffix) ==
    Len(suffix) <= Len(text) /\ SubSeq(text, Len(text) - Len(suffix) + 1, Len(text)) = suffix

\* text.split("://", 1)[1] when "://" is in text: what follows its first occurrence
strip_protocol(text) ==
    LET at == {k \in 1..Len(text) : text[k] = "://"} IN
    IF at = {} THEN text
    ELSE LET first == CHOOSE k \in at : \A j \in at : k <= j
         IN SubSeq(text, first + 1, Len(text))

\* fnmatch.fnmatch for patterns whose only special character is "*"
RECURSIVE fnmatch(_, _)
fnmatch(name, pat) ==
    IF pat = <<>> THEN name = <<>>
    ELSE IF Head(pat) = "*"
        THEN fnmatch(name, Tail(pat)) \/ (name # <<>> /\ fnmatch(Tail(name), pat))
    ELSE name # <<>> /\ Head(name) = Head(pat) /\ fnmatch(Tail(name), Tail(pat))

\* a domain that merely ends with the base
covers_suffix(domain, base_domain) == domain = base_domain \/ endswith(domain, base_domain)

\* line 739: domain == base_domain or domain.endswith("." + base_domain)
covers_base(domain, base_domain) ==
    domain = base_domain \/ endswith(domain, <<".">> \o base_domain)

\* _domain_matches_pattern, lines 726-744
domain_matches_pattern(domain_in, pattern_in) ==
    LET domain == strip_protocol(domain_in)
        pattern == strip_protocol(pattern_in)
    IN IF startswith(pattern, <<"*", ".">>)
           THEN covers_base(domain, SubSeq(pattern, 3, Len(pattern)))
       ELSE IF \E k \in 1..Len(pattern) : pattern[k] = "*"
           THEN fnmatch(domain, pattern)
       ELSE domain = pattern

\* _validate_sensitive_data_domains: the declared domains no allowed pattern
\* covers are logged; nothing is raised and nothing is returned
uncovered_domains(sensitive_data, allowed_domains) ==
    {d \in sensitive_data : ~\E pattern \in allowed_domains : domain_matches_pattern(d, pattern)}

validate_sensitive_data_domains(sensitive_data, allowed_domains) ==
    LET warned == uncovered_domains(sensitive_data, allowed_domains) # {}
    IN Return(None)

\* The local browser_profile of _execute_task when line 199 reads it: the
\* function assigns it for the first time at line 218, so it has no value.
Unbound == "unbound"
browser_profile_199 == Unbound

UNBOUND_LOCAL_EXCEPTION == "cannot access local variable 'browser_profile' where it is not associated with a value"
UNBOUND_LOCAL_ERROR == "Agent creation failed: cannot access local variable 'browser_profile' where it is not associated with a value"

\* lines 196-203: the handling of declared sensitive data
sensitive_data_handling(task) ==
    IF task.agent_config.sensitive_data = {} THEN
        Return(task)
    ELSE IF browser_profile_199 = Unbound THEN
        Raise("UnboundLocalError", UNBOUND_LOCAL_EXCEPTION)
    ELSE
        LET validated == IF task.browser_config.allowed_domains # {}
                             THEN validate_sensitive_data_domains(
                                      task.agent_config.sensitive_data,
                                      task.browser_config.allowed_domains)
                             ELSE Return(None)
        IN IF validated.kind = "raise"
               THEN validated
               ELSE Return(add_step(task, "sensitive_data", None))

\* lines 205-215: one closure per declared hook, made for this task
lifecycle_hooks(task_id, agent_config) ==
    {<<task_id, hook>> : hook \in agent_config.lifecycle_hooks}

\* asyncio.Semaphore: locked(), acquire() of a free semaphore, release()
never_locked(value) == FALSE

locked(value) == value = 0
acquire(value) == value - 1
release(value) == value + 1

\* "async with" leaves the gate through __aexit__, which releases it whether
\* the body returned or raised
exit_gate_on_return(value, raised) == IF raised THEN value ELSE release(value)

exit_gate(value, raised) == release(value)

\* lines 144-265, the construction up to the gate: the task with its steps
\* and the hooks and the controller made, or the exception raised.
\* _create_controller returns None when it fails (controller_ok false).
before_gate(task_id, task, controller_ok) ==
    LET s1 == add_step(add_step(task, "llm_created", None), "agent_init", None)
        sd == sensitive_data_handling(s1)
    IN
    IF sd.kind = "raise" THEN
        [exception |-> sd.value.message, task |-> s1, hooks |-> {}, controller |-> None]
    ELSE
        LET hooks == lifecycle_hooks(task_id, task.agent_config)
            s2 == IF hooks # {} THEN add_step(sd.value, "lifecycle_hooks", None) ELSE sd.value
            controller == IF task.agent_config.controller_config.present /\ controller_ok
                              THEN "Controller" ELSE None
            s3 == IF controller # None THEN add_step(s2, "controller_created", None) ELSE s2
        IN [exception |-> None, task |-> s3, hooks |-> hooks, controller |-> controller]

\* LLMFactory.create_llm raised and the failure is only recorded as a step
llm_creation_recorded(task) == add_step(task, "llm_error", LLM_EXCEPTION)

\* lines 139-141 and 411-417: LLMFactory.create_llm raised; the handler adds
\* the "llm_error" step and re-raises to the outer handler, which fails the task
llm_creation_failed(task) ==
    LET s2 == add_step(task, "llm_error", LLM_EXCEPTION)
        s3 == set_status([s2 EXCEPT !.error = FATAL_ERROR], FAILED)
    IN add_step(s3, "fatal_error", FATAL_ERROR)

\* lines 287-292: the handler of the construction
agent_creation_failed(task, exception) ==
    [set_status(add_step(task, "agent_error", exception), FAILED)
        EXCEPT !.error = IF exception = AGENT_EXCEPTION
                             THEN AGENT_ERROR ELSE UNBOUND_LOCAL_ERROR]

\* _execute_task from its first step to its first real suspension: in
\* asyncio.wait_for (line 301), or in the acquire of a held construction
\* gate (line 272), or to its end when the LLM or the Agent cannot be
\* created.  A unit suspended at the gate goes on from there once it is free.
\* wait_for either schedules the run as a task of its own, which starts in a
\* later step (CPython up to 3.11), or awaits it in place (from 3.12 on).
UnitBegin(task_id, llm_ok, agent_ok) ==
    /\ unit[task_id].pc \in {"spawned", "gate_wait"}
    /\ ~unit[task_id].must_cancel
    /\ unit[task_id].pc = "gate_wait" => ~locked(semaphore)
    /\ last' = NoCall
    /\ UNCHANGED <<background_tasks, ceiling>>
    /\ LET task == tasks[task_id]
           s1 == add_step(task, "llm_init", None)
       IN
       IF unit[task_id].pc = "spawned" /\ ~llm_ok THEN
            \* lines 139-141, then the outer handler 411-417 and the finally
            /\ tasks' = [tasks EXCEPT ![task_id] = llm_creation_failed(s1)]
            /\ Cleanup(task_id, None, None)
            /\ unit' = [unit EXCEPT ![task_id] = Terminated(@)]
            /\ UNCHANGED <<semaphore, current_lifecycle_hooks>>
       ELSE
       \E controller_ok \in BOOLEAN :
         LET made == IF unit[task_id].pc = "gate_wait"
                        THEN [exception |-> None, task |-> task,
                              hooks |-> lifecycle_hooks(task_id, task.agent_config),
                              controller |-> unit[task_id].controller]
                        ELSE before_gate(task_id, s1, controller_ok)
         IN
         IF made.exception # None THEN
            \* lines 287-292, then the finally
            /\ tasks' = [tasks EXCEPT ![task_id] = agent_creation_failed(made.task, made.exception)]
            /\ Cleanup(task_id, None, None)
            /\ unit' = [unit EXCEPT ![task_id] = Terminated(@)]
            /\ UNCHANGED <<semaphore, current_lifecycle_hooks>>
         ELSE IF locked(semaphore) THEN
            \* line 272: the gate is held, the unit waits in acquire()
            /\ tasks' = [tasks EXCEPT ![task_id] = made.task]
            /\ unit' = [unit EXCEPT ![task_id].pc = "gate_wait",
                                    ![task_id].controller = made.controller]
            /\ UNCHANGED <<active_tasks, browser_sessions, task_agents, cleanup_runs,
                           semaphore, current_lifecycle_hooks>>
         ELSE IF ~agent_ok THEN
            \* Agent(...) raises inside the gate, which "async with" releases;
            \* lines 287-292, then the finally
            /\ semaphore' = release(acquire(semaphore))
            /\ tasks' = [tasks EXCEPT ![task_id] = agent_creation_failed(made.task, AGENT_EXCEPTION)]
            /\ Cleanup(task_id, None, None)
            /\ unit' = [unit EXCEPT ![task_id] = Terminated(@)]
            /\ UNCHANGED current_lifecycle_hooks
         ELSE
            \* lines 272-296
            LET s3 == add_step(add_step(made.task, "agent_created", None),
                               "execution_start", None)
            IN /\ semaphore' = release(acquire(semaphore))
               /\ tasks' = [tasks EXCEPT ![task_id] = update_progress(s3, 10)]
               /\ task_agents' = task_agents \cup {task_id}
               /\ browser_sessions' = browser_sessions \cup {task_id}
               /\ current_lifecycle_hooks' = made.hooks
               /\ \E in_place \in BOOLEAN :
                    unit' = [unit EXCEPT ![task_id].pc = "waiting",
                                         ![task_id].controller = made.controller,
                                         ![task_id].run_begun = in_place,
                                         ![task_id].hooks = IF in_place THEN made.hooks ELSE {}]
               /\ UNCHANGED <<active_tasks, cleanup_runs>>

\* The construction taken one statement at a time, for a scheduler that may
\* switch units between the acquire of the gate and its release.
\* ConstructionEnter: _execute_task from its first step to the acquire of the
\* gate (line 272), in which it waits while the gate is held.
ConstructionEnter(task_id, llm_ok) ==
    /\ unit[task_id].pc \in {"spawned", "gate_wait"}
    /\ ~unit[task_id].must_cancel
    /\ unit[task_id].pc = "gate_wait" => ~locked(semaphore)
    /\ last' = NoCall
    /\ UNCHANGED <<background_tasks, ceiling, current_lifecycle_hooks>>
    /\ LET task == tasks[task_id]
           s1 == add_step(task, "llm_init", None)
       IN
       IF unit[task_id].pc = "spawned" /\ ~llm_ok THEN
            \* lines 139-141, then the outer handler 411-417 and the finally
            /\ tasks' = [tasks EXCEPT ![task_id] = llm_creation_failed(s1)]
            /\ Cleanup(task_id, None, None)
            /\ unit' = [unit EXCEPT ![task_id] = Terminated(@)]
            /\ UNCHANGED semaphore
       ELSE
       \E controller_ok \in BOOLEAN :
         LET made == IF unit[task_id].pc = "gate_wait"
                        THEN [exception |-> None, task |-> task,
                              hooks |-> lifecycle_hooks(task_id, task.agent_config),
                              controller |-> unit[task_id].controller]
                        ELSE before_gate(task_id, s1, controller_ok)
         IN
         IF made.exception # None THEN
            \* lines 287-292, then the finally
            /\ tasks' = [tasks EXCEPT ![task_id] = agent_creation_failed(made.task, made.exception)]
            /\ Cleanup(task_id, None, None)
            /\ unit' = [unit EXCEPT ![task_id] = Terminated(@)]
            /\ UNCHANGED semaphore
         ELSE IF locked(semaphore) THEN
            \* the gate is held, the unit waits in acquire()
            /\ tasks' = [tasks EXCEPT ![task_id] = made.task]
            /\ unit' = [unit EXCEPT ![task_id].pc = "gate_wait",
                                    ![task_id].controller = made.controller]
            /\ UNCHANGED <<active_tasks, browser_sessions, task_agents, cleanup_runs, semaphore>>
         ELSE
            \* the unit holds the gate and is about to call Agent(...)
            /\ semaphore' = acquire(semaphore)
            /\ tasks' = [tasks EXCEPT ![task_id] = made.task]
            /\ unit' = [unit EXCEPT ![task_id].pc = "constructing",
                                    ![task_id].controller = made.controller]
            /\ UNCHANGED <<active_tasks, browser_sessions, task_agents, cleanup_runs>>

\* ConstructionLeave: Agent(...) returns or raises (line 273), the gate is
\* left, and the unit goes on to wait_for (lines 275-301) or to the handler
\* of the construction (lines 287-292) and the finally
ConstructionLeave(task_id, agent_ok) ==
    /\ unit[task_id].pc = "constructing"
    /\ last' = NoCall
    /\ UNCHANGED <<background_tasks, ceiling>>
    /\ semaphore' = exit_gate(semaphore, ~agent_ok)
    /\ IF ~agent_ok THEN
            /\ tasks' = [tasks EXCEPT ![task_id] = agent_creation_failed(@, AGENT_EXCEPTION)]
            /\ Cleanup(task_id, None, None)
            /\ unit' = [unit EXCEPT ![task_id] = Terminated(@)]
            /\ UNCHANGED current_lifecycle_hooks
       ELSE
            LET hooks == lifecycle_hooks(task_id, tasks[task_id].agent_config)
                s3 == add_step(add_step(tasks[task_id], "agent_created", None),
                               "execution_start", None)
            IN /\ tasks' = [tasks EXCEPT ![task_id] = update_progress(s3, 10)]
               /\ task_agents' = task_agents \cup {task_id}
               /\ browser_sessions' = browser_sessions \cup {task_id}
               /\ current_lifecycle_hooks' = hooks
               /\ \E in_place \in BOOLEAN :
                    unit' = [unit EXCEPT ![task_id].pc = "waiting",
                                         ![task_id].run_begun = in_place,
                                         ![task_id].hooks = IF in_place THEN hooks ELSE {}]
               /\ UNCHANGED <<active_tasks, cleanup_runs>>

\* the first step of the run asyncio.wait_for scheduled:
\* _run_agent_with_monitoring reads the manager's hooks (lines 452-454) and
\* calls agent.run with them
RunBegin(task_id) ==
    /\ unit[task_id].pc = "waiting"
    /\ ~unit[task_id].run_begun
    /\ ~unit[task_id].must_cancel
    /\ unit' = [unit EXCEPT ![task_id].run_begun = TRUE,
                            ![task_id].hooks = current_lifecycle_hooks]
    /\ last' = NoCall
    /\ UNCHANGED <<background_tasks, construction>>
    /\ UNCHANGED <<tasks, active_tasks, browser_sessions, task_agents, cleanup_runs>>

\* the engine's run ends (agent.run returns or raises); the unit is woken later
EngineReturns(task_id, outcome) ==
    /\ unit[task_id].pc = "waiting"
    /\ unit[task_id].run_begun
    /\ unit' = [unit EXCEPT ![task_id] =
                    [RunEnded(@, outcome) EXCEPT
                        !.result = IF outcome = "result" THEN PlainResult ELSE NoResult]]
    /\ last' = NoCall
    /\ UNCHANGED <<background_tasks, construction>>
    /\ UNCHANGED <<tasks, active_tasks, browser_sessions, task_agents, cleanup_runs>>

\* agent.run returns an object, whatever its accessors do
EngineReturnsResult(task_id, result) ==
    /\ unit[task_id].pc = "waiting"
    /\ unit[task_id].run_begun
    /\ unit' = [unit EXCEPT ![task_id] = [RunEnded(@, "result") EXCEPT !.result = result]]
    /\ last' = NoCall
    /\ UNCHANGED <<background_tasks, construction>>
    /\ UNCHANGED <<tasks, active_tasks, browser_sessions, task_agents, cleanup_runs>>

\* the wall-clock timer of asyncio.wait_for fires before the run has ended
TimerFires(task_id) ==
    /\ unit[task_id].pc = "waiting"
    /\ unit' = [unit EXCEPT ![task_id] = RunEnded(@, "timeout")]
    /\ last' = NoCall
    /\ UNCHANGED <<background_tasks, construction>>
    /\ UNCHANGED <<tasks, active_tasks, browser_sessions, task_agents, cleanup_runs>>

\* the unit resumes from wait_for, handles the outcome and runs its finally
UnitResume(task_id) ==
    /\ unit[task_id].pc = "run_done"
    /\ ~unit[task_id].must_cancel
    /\ tasks' = [tasks EXCEPT ![task_id] = AfterRun(@, unit[task_id])]
    /\ Cleanup(task_id, None, "Agent")
    /\ unit' = [unit EXCEPT ![task_id] = Terminated(@)]
    /\ last' = NoCall
    /\ UNCHANGED <<background_tasks, construction>>

\* the unit resumes with a cancellation pending (thrown into acquire() while it
\* waits for the gate, into the body of "async with", which then releases the
\* gate, or into wait_for).  CancelledError is not an
\* Exception, so no handler of _execute_task sets a status and only the
\* finally runs.  When the run had already ended, wait_for may instead hand
\* back the run's outcome and drop the cancellation (CPython up to 3.11:
\* "if fut.done(): return fut.result()"); both outcomes are possible.
UnitCancelled(task_id, swallowed) ==
    /\ unit[task_id].pc \in {"gate_wait", "constructing", "waiting", "run_done"}
    /\ unit[task_id].must_cancel
    /\ swallowed => /\ unit[task_id].pc = "run_done"
                    /\ unit[task_id].outcome \in Outcomes \cup {"timeout_error"}
    /\ tasks' = IF swallowed
                  THEN [tasks EXCEPT ![task_id] = AfterRun(@, unit[task_id])]
                  ELSE tasks
    /\ Cleanup(task_id, None,
               IF unit[task_id].pc \in {"gate_wait", "constructing"} THEN None ELSE "Agent")
    /\ unit' = [unit EXCEPT ![task_id] = Terminated(@)]
    /\ semaphore' = IF unit[task_id].pc = "constructing"
                       THEN exit_gate(semaphore, TRUE) ELSE semaphore
    /\ last' = NoCall
    /\ UNCHANGED <<background_tasks, current_lifecycle_hooks, ceiling>>

\* ---------------------------------------------------------------- extensions
\* Custom actions (_register_custom_function) and lifecycle hooks
\* (_create_lifecycle_hook) are closures the engine calls during its run.
\* A call either returns a value or raises an exception (Return, Raise).

\* browser_use.ActionResult(extracted_content=..., include_in_memory=...);
\* a text is the sequence of the parts it is formatted from
ActionResult(extracted_content, include_in_memory) ==
    [extracted_content |-> extracted_content, include_in_memory |-> include_in_memory]

\* What the webhook endpoint does with the POST: it answers with a status and
\* a body (a JSON object with or without "content", or text that is no JSON),
\* or the transport fails (aiohttp.ClientError) or exceeds timeout_seconds
\* (asyncio.TimeoutError).
HttpStatuses == {200, 201, 404, 500}
Bodies == {"json_content", "json_empty", "text"}
WebhookReplies ==
    [error : {None}, status : HttpStatuses, body : Bodies]
    \cup [error : {"ClientError", "TimeoutError"}, status : {0}, body : {None}]

\* What the python_code of a code action does when executed: it returns an
\* ActionResult, returns another value, raises, or does not compile.
ActionBodies == {"returns_action_result", "returns_value", "raises", "syntax_error"}

\* What the python_code of a code hook does when executed.
HookBodies == {"returns", "raises", "syntax_error"}

\* CustomFunction and LifecycleHook, the fields the closures read
CustomFunctions == [implementation_type : {"webhook", "code"}, include_in_memory : BOOLEAN]
LifecycleHooks ==
    [hook_type : {"on_step_start", "on_step_end"},
     implementation_type : {"webhook", "code"},
     continue_on_error : BOOLEAN]

\* await response.json() followed by result_data.get('content', '')
response_content(reply) ==
    CASE reply.body = "json_content" -> Return(<<"content">>)
      [] reply.body = "json_empty" -> Return(<<>>)
      [] reply.body = "text" -> Raise("ContentTypeError", "unexpected mimetype")

\* the try block of webhook_function (lines 757-793)
webhook_function_try(func_def, reply) ==
    IF reply.error # None THEN
        Raise(reply.error, reply.error)
    ELSE IF reply.status = 200 THEN
        LET content == response_content(reply) IN
        IF content.kind = "raise"
            THEN content
            ELSE Return(ActionResult(content.value, func_def.include_in_memory))
    ELSE
        Return(ActionResult(<<"Webhook error: ", reply.status, reply.body>>, FALSE))

\* webhook_function without its exception handler
webhook_function_unhandled(func_def, reply) ==
    webhook_function_try(func_def, reply)

\* webhook_function: the handler of lines 795-800 turns every exception of
\* the try block into a result
webhook_function(func_def, reply) ==
    LET r == webhook_function_try(func_def, reply) IN
    IF r.kind = "raise"
        THEN Return(ActionResult(<<"Function execution failed: ", r.value.message>>, FALSE))
        ELSE r

\* the try block of code_function (lines 811-836)
code_function_try(func_def, body) ==
    CASE body = "returns_action_result" -> Return(ActionResult(<<"from code">>, TRUE))
      [] body = "returns_value" -> Return(ActionResult(<<"str(result)">>, func_def.include_in_memory))
      [] body = "raises" -> Raise("Exception", "code exception")
      [] body = "syntax_error" -> Raise("SyntaxError", "invalid syntax")

\* code_function: the handler of lines 838-843
code_function(func_def, body) ==
    LET r == code_function_try(func_def, body) IN
    IF r.kind = "raise"
        THEN Return(ActionResult(<<"Function execution failed: ", r.value.message>>, FALSE))
        ELSE r

\* the try block of webhook_hook (lines 908-959); a failure to capture the
\* page data is logged inside it and changes nothing
webhook_hook_try(hook_config, reply) ==
    IF reply.error # None THEN
        Raise(reply.error, reply.error)
    ELSE IF reply.status # 200 /\ ~hook_config.continue_on_error THEN
        Raise("Exception", <<"Hook webhook failed: ", reply.status>>)
    ELSE
        Return(None)

\* the handler of a hook (lines 961-964 and 991-994) with a bare "raise"
reraise_always(hook_config, r) == r

\* the handler of a hook: "if not hook_config.continue_on_error: raise"
reraise(hook_config, r) ==
    IF r.kind = "raise" /\ hook_config.continue_on_error
        THEN Return(None)
        ELSE r

webhook_hook(hook_config, reply) ==
    reraise(hook_config, webhook_hook_try(hook_config, reply))

\* the try block of code_hook (lines 971-989)
code_hook_try(hook_config, body) ==
    CASE body = "returns" -> Return(None)
      [] body = "raises" -> Raise("Exception", "code exception")
      [] body = "syntax_error" -> Raise("SyntaxError", "invalid syntax")

code_hook(hook_config, body) ==
    reraise(hook_config, code_hook_try(hook_config, body))

\* the engine's call of an extension of a task and what came back
ExtensionCall(op, task_id, config, environment, result) ==
    [op |-> op, user |-> None, task |-> task_id,
     config |-> config, environment |-> environment, result |-> result]

\* The engine calls an extension while the unit waits for the run.  A value
\* goes back into the run, which goes on; an exception ends the run, which
\* raises it to wait_for: a TimeoutError reaches the handler of line 389,
\* any other exception the handler of line 395.
EngineCalls(task_id, op, config, environment, result) ==
    /\ unit[task_id].pc = "waiting"
    /\ unit[task_id].run_begun
    /\ last' = ExtensionCall(op, task_id, config, environment, result)
    /\ unit' = IF result.kind = "raise"
                 THEN [unit EXCEPT ![task_id] =
                                       RunEnded(@, IF result.value.type = "TimeoutError"
                                                       THEN "timeout_error" ELSE "exception")]
                 ELSE unit
    /\ UNCHANGED <<tasks, active_tasks, browser_sessions, task_agents, cleanup_runs,
                   background_tasks, construction>>

CallWebhookFunction(task_id, func_def, reply) ==
    /\ func_def.implementation_type = "webhook"
    /\ EngineCalls(task_id, "webhook_function", func_def, reply,
                   webhook_function(func_def, reply))

CallCodeFunction(task_id, func_def, body) ==
    /\ func_def.implementation_type = "code"
    /\ EngineCalls(task_id, "code_function", func_def, body,
                   code_function(func_def, body))

CallWebhookHook(task_id, hook_config, reply) ==
    /\ hook_config.implementation_type = "webhook"
    /\ EngineCalls(task_id, "webhook_hook", hook_config, reply,
                   webhook_hook(hook_config, reply))

CallCodeHook(task_id, hook_config, body) ==
    /\ hook_config.implementation_type = "code"
    /\ EngineCalls(task_id, "code_hook", hook_config, body,
                   code_hook(hook_config, body))

\* ---------------------------------------------------------------- specification
Next ==
    \/ \E u \in Users : CreateTask(u, LLMConfig, AllConfigured) /\ UNCHANGED <<background_tasks, construction>>
    \/ \E u \in Users, i \in TaskIds : StartTask(u, i)
    \/ \E u \in Users, i \in TaskIds : StopTask(u, i)
    \/ \E u \in Users, i \in TaskIds : PauseTask(u, i)
    \/ \E u \in Users, i \in TaskIds : ResumeTask(u, i)
    \/ \E i \in TaskIds : UnitCancelledUnstarted(i)
    \/ \E i \in TaskIds, llm_ok \in BOOLEAN, agent_ok \in BOOLEAN : UnitBegin(i, llm_ok, agent_ok)
    \/ \E i \in TaskIds : RunBegin(i)
    \/ \E i \in TaskIds, o \in Outcomes : EngineReturns(i, o)
    \/ \E i \in TaskIds : TimerFires(i)
    \/ \E i \in TaskIds : UnitResume(i)
    \/ \E i \in TaskIds, sw \in BOOLEAN : UnitCancelled(i, sw)

Spec == Init /\ [][Next]_vars

\* create_task over the llm_config a request can carry and the provider
\* configurations the environment can have; start_task for the tasks made
NextCreate ==
    \/ \E u \in Users, c \in LLMConfigs, a \in AvailableProviders :
            CreateTask(u, c, a) /\ UNCHANGED <<background_tasks, construction>>
    \/ \E u \in Users, i \in TaskIds : StartTask(u, i)

CreateSpec == Init /\ [][NextCreate]_vars

\* the manager behind its endpoints, create-and-run included
NextRun ==
    \/ Next
    \/ \E u \in Users : CreateAndRunTask(u, LLMConfig, AllConfigured)
    \/ \E u \in Users, i \in TaskIds : BackgroundStart(u, i)

RunSpec == Init /\ [][NextRun]_vars

\* a run whose engine calls custom actions and lifecycle hooks
NextExtension ==
    \/ \E u \in Users : CreateTask(u, LLMConfig, AllConfigured) /\ UNCHANGED <<background_tasks, construction>>
    \/ \E u \in Users, i \in TaskIds : StartTask(u, i)
    \/ \E i \in TaskIds, llm_ok \in BOOLEAN, agent_ok \in BOOLEAN : UnitBegin(i, llm_ok, agent_ok)
    \/ \E i \in TaskIds, f \in CustomFunctions, r \in WebhookReplies : CallWebhookFunction(i, f, r)
    \/ \E i \in TaskIds, f \in CustomFunctions, b \in ActionBodies : CallCodeFunction(i, f, b)
    \/ \E i \in TaskIds, h \in LifecycleHooks, r \in WebhookReplies : CallWebhookHook(i, h, r)
    \/ \E i \in TaskIds, h \in LifecycleHooks, b \in HookBodies : CallCodeHook(i, h, b)
    \/ \E i \in TaskIds : RunBegin(i)
    \/ \E i \in TaskIds, o \in Outcomes : EngineReturns(i, o)
    \/ \E i \in TaskIds : TimerFires(i)
    \/ \E i \in TaskIds : UnitResume(i)

ExtensionSpec == Init /\ [][NextExtension]_vars

\* A manager whose ceiling admits one or two units and whose store holds
\* tasks with secrets or hooks declared: construction, run and stop.
InitConfigured ==
    /\ tasks = <<>>
    /\ active_tasks = {}
    /\ browser_sessions = {}
    /\ task_agents = {}
    /\ unit = [i \in TaskIds |-> NoUnit]
    /\ cleanup_runs = [i \in TaskIds |-> 0]
    /\ background_tasks = {}
    /\ semaphore = 1
    /\ current_lifecycle_hooks = {}
    /\ ceiling \in {max_concurrent_tasks, max_concurrent_tasks + 1}
    /\ last = NoCall

OneUser == {"u1"}

NextConfigured ==
    \/ \E u \in OneUser, c \in {DefaultConfig} \cup SensitiveConfigs \cup HookConfigs : AddTask(u, c)
    \/ \E u \in OneUser, i \in TaskIds : StartTask(u, i)
    \/ \E u \in OneUser, i \in TaskIds : StopTask(u, i)
    \/ \E i \in TaskIds : UnitCancelledUnstarted(i)
    \/ \E i \in TaskIds, llm_ok \in BOOLEAN, agent_ok \in BOOLEAN : UnitBegin(i, llm_ok, agent_ok)
    \/ \E i \in TaskIds : RunBegin(i)
    \/ \E i \in TaskIds, o \in Outcomes : EngineReturns(i, o)
    \/ \E i \in TaskIds : UnitResume(i)
    \/ \E i \in TaskIds, sw \in BOOLEAN : UnitCancelled(i, sw)

ConfiguredSpec == InitConfigured /\ [][NextConfigured]_vars

\* runs that return every kind of result object, for tasks without and with
\* a controller configuration
NextResult ==
    \/ \E u \in OneUser, c \in {DefaultConfig} \cup ControllerConfigs : AddTask(u, c)
    \/ \E u \in OneUser, i \in TaskIds : StartTask(u, i)
    \/ \E i \in TaskIds, llm_ok \in BOOLEAN, agent_ok \in BOOLEAN : UnitBegin(i, llm_ok, agent_ok)
    \/ \E i \in TaskIds : RunBegin(i)
    \/ \E i \in TaskIds, r \in Results : EngineReturnsResult(i, r)
    \/ \E i \in TaskIds : UnitResume(i)

ResultSpec == Init /\ [][NextResult]_vars

\* runs that return a result whose history accessors are absent, raise or
\* return, in every combination
Histories == [HistoryFields -> {ABSENT, RAISES, "value"}]

NextHistory ==
    \/ \E u \in OneUser : AddTask(u, DefaultConfig)
    \/ \E u \in OneUser, i \in TaskIds : StartTask(u, i)
    \/ \E i \in TaskIds : UnitBegin(i, TRUE, TRUE)
    \/ \E i \in TaskIds : RunBegin(i)
    \/ \E i \in TaskIds, h \in Histories :
          EngineReturnsResult(i, [PlainResult EXCEPT !.history = h])
    \/ \E i \in TaskIds : UnitResume(i)

HistorySpec == Init /\ [][NextHistory]_vars

\* tasks created from requests with and without a flat browser configuration
\* and a full profile, started and constructed
NextProfile ==
    \/ \E u \in OneUser, task_create \in TaskCreates : CreateTaskRequest(u, task_create)
    \/ \E u \in OneUser, i \in TaskIds : StartTask(u, i)
    \/ \E i \in TaskIds : UnitBegin(i, TRUE, TRUE)
    \/ \E i \in TaskIds : RunBegin(i)

ProfileSpec == Init /\ [][NextProfile]_vars

\* _validate_sensitive_data_domains applied to one declared domain and a list
\* of allowed patterns.  Texts of up to MaxDomainLen characters over a, b and
\* the dot, patterns with "*" as well, each with or without a protocol.
MaxDomainLen == 4
MaxPatternLen == 3
Texts(chars, max_len) == UNION {[1..n -> chars] : n \in 1..max_len}
WithProtocol(texts) == texts \cup {<<"s", "://">> \o t : t \in texts}
DomainTexts == WithProtocol(Texts({"a", "b", "."}, MaxDomainLen))
PatternTexts == WithProtocol(Texts({"a", "b", ".", "*"}, MaxPatternLen))

ValidationCall(op, domain, pattern, others, matches, warning) ==
    [op |-> op, domain |-> domain, pattern |-> pattern, others |-> others,
     matches |-> matches, warning |-> warning]

InitValidation ==
    /\ tasks = <<>>
    /\ active_tasks = {}
    /\ browser_sessions = {}
    /\ task_agents = {}
    /\ unit = [i \in TaskIds |-> NoUnit]
    /\ cleanup_runs = [i \in TaskIds |-> 0]
    /\ background_tasks = {}
    /\ semaphore = 1
    /\ current_lifecycle_hooks = {}
    /\ ceiling = max_concurrent_tasks
    /\ \E domain \in DomainTexts, pattern \in PatternTexts, others \in {{}, {<<"b">>}} :
          last = ValidationCall("input", domain, pattern, others, FALSE, {})

\* the validation of the declared domain against the pattern and the others
ValidateSensitiveDataDomains ==
    /\ last.op = "input"
    /\ last' = ValidationCall("validate_sensitive_data_domains",
                              last.domain, last.pattern, last.others,
                              domain_matches_pattern(last.domain, last.pattern),
                              uncovered_domains({last.domain}, {last.pattern} \cup last.others))
    /\ UNCHANGED Frame

ValidationSpec == InitValidation /\ [][ValidateSensitiveDataDomains]_vars

\* the manager's operations on stored tasks together with its queries; the
\* units run to their first suspension and on to a result
NextRead ==
    \/ \E u \in Users : CreateTask(u, LLMConfig, AllConfigured) /\ UNCHANGED <<background_tasks, construction>>
    \/ \E u \in Users, i \in TaskIds : StartTask(u, i)
    \/ \E u \in Users, i \in TaskIds : StopTask(u, i)
    \/ \E u \in Users, i \in TaskIds : PauseTask(u, i)
    \/ \E u \in Users, i \in TaskIds : ResumeTask(u, i)
    \/ \E u \in Users, i \in TaskIds : GetTaskStatus(u, i)
    \/ \E u \in Users, page \in Pages, page_size \in PageSizes, status_filter \in StatusFilters :
          ListTasks(u, page, page_size, status_filter)
    \/ GetSystemStats
    \/ \E i \in TaskIds : UnitBegin(i, TRUE, TRUE)
    \/ \E i \in TaskIds : RunBegin(i)
    \/ \E i \in TaskIds : EngineReturns(i, "result")
    \/ \E i \in TaskIds : UnitResume(i)
    \/ \E i \in TaskIds, sw \in BOOLEAN : UnitCancelled(i, sw)

ReadSpec == Init /\ [][NextRead]_vars

\* units that a scheduler may switch while one is between the acquire and the
\* release of the construction gate
NextGate ==
    \/ \E u \in OneUser : AddTask(u, DefaultConfig)
    \/ \E u \in OneUser, i \in TaskIds : StartTask(u, i)
    \/ \E u \in OneUser, i \in TaskIds : StopTask(u, i)
    \/ \E i \in TaskIds : UnitCancelledUnstarted(i)
    \/ \E i \in TaskIds, llm_ok \in BOOLEAN : ConstructionEnter(i, llm_ok)
    \/ \E i \in TaskIds, agent_ok \in BOOLEAN : ConstructionLeave(i, agent_ok)
    \/ \E i \in TaskIds : RunBegin(i)
    \/ \E i \in TaskIds, o \in Outcomes : EngineReturns(i, o)
    \/ \E i \in TaskIds : UnitResume(i)
    \/ \E i \in TaskIds, sw \in BOOLEAN : UnitCancelled(i, sw)

GateSpec == InitConfigured /\ [][NextGate]_vars

\* every unit that can step does step
GateStep(task_id) ==
    \/ UnitCancelledUnstarted(task_id)
    \/ \E llm_ok \in BOOLEAN : ConstructionEnter(task_id, llm_ok)
    \/ \E agent_ok \in BOOLEAN : ConstructionLeave(task_id, agent_ok)
    \/ UnitResume(task_id)
    \/ \E sw \in BOOLEAN : UnitCancelled(task_id, sw)

GateFairSpec == GateSpec /\ \A i \in TaskIds : WF_vars(GateStep(i))

\* ---------------------------------------------------------------- shutdown
\* settings.DEFAULT_USER_ID, the owner of requests that name no user
DEFAULT_USER_ID == "u1"

\* what a successful stop_task leaves of the task (lines 1040-1051)
stopped(task) ==
    add_step(set_status(add_step(set_status(task, STOPPING), "stopping", None), STOPPED),
             "stopped", None)

\* The shutdown half of lifespan: stop_task(settings.DEFAULT_USER_ID, task_id)
\* for every key of active_tasks, the HTTPException of a task that is not the
\* default user's (404) or not active (400) logged and dropped; then close()
\* on every stored session, each of which is None (AttributeError, logged).
\* stop_task awaits nothing that suspends, so the loop is one step of the
\* event loop, and each pass touches the entries of its own task only.
Shutdown ==
    LET stops == {i \in active_tasks :
                     has_task(DEFAULT_USER_ID, i) /\ is_active(get_task(DEFAULT_USER_ID, i))}
    IN
    /\ unit' = [i \in TaskIds |->
                   IF i \in stops /\ ~done(i)
                       THEN [unit[i] EXCEPT !.must_cancel = TRUE] ELSE unit[i]]
    /\ tasks' = [i \in DOMAIN tasks |->
                    IF i \in stops THEN stopped(tasks[i]) ELSE tasks[i]]
    /\ active_tasks' = active_tasks \ stops
    /\ task_agents' = task_agents \ stops
    /\ cleanup_runs' = [i \in TaskIds |->
                           IF i \in stops THEN cleanup_runs[i] + 1 ELSE cleanup_runs[i]]
    /\ last' = Response("shutdown", DEFAULT_USER_ID, 0, "ok")
    /\ UNCHANGED <<browser_sessions, background_tasks, construction>>

\* tasks of two owners created, started, paused and run, and the shutdown
NextShutdown ==
    \/ \E u \in Users : CreateTask(u, LLMConfig, AllConfigured) /\ UNCHANGED <<background_tasks, construction>>
    \/ \E u \in Users, i \in TaskIds : StartTask(u, i)
    \/ \E u \in Users, i \in TaskIds : PauseTask(u, i)
    \/ \E i \in TaskIds : UnitCancelledUnstarted(i)
    \/ \E i \in TaskIds : UnitBegin(i, TRUE, TRUE)
    \/ \E i \in TaskIds : RunBegin(i)
    \/ \E i \in TaskIds : EngineReturns(i, "result")
    \/ \E i \in TaskIds : UnitResume(i)
    \/ \E i \in TaskIds, sw \in BOOLEAN : UnitCancelled(i, sw)
    \/ Shutdown

ShutdownSpec == InitConfigured /\ [][NextShutdown]_vars

\* Every call of the manager on one owner's tasks and every step of their
\* units, the construction taken statement by statement around its gate.
NextTermination ==
    \/ \E u \in OneUser : CreateTask(u, LLMConfig, AllConfigured) /\ UNCHANGED <<background_tasks, construction>>
    \/ \E u \in OneUser, i \in TaskIds : StartTask(u, i)
    \/ \E u \in OneUser, i \in TaskIds : StopTask(u, i)
    \/ \E u \in OneUser, i \in TaskIds : PauseTask(u, i)
    \/ \E u \in OneUser, i \in TaskIds : ResumeTask(u, i)
    \/ \E i \in TaskIds : UnitCancelledUnstarted(i)
    \/ \E i \in TaskIds, llm_ok \in BOOLEAN : ConstructionEnter(i, llm_ok)
    \/ \E i \in TaskIds, agent_ok \in BOOLEAN : ConstructionLeave(i, agent_ok)
    \/ \E i \in TaskIds : RunBegin(i)
    \/ \E i \in TaskIds, o \in Outcomes : EngineReturns(i, o)
    \/ \E i \in TaskIds : TimerFires(i)
    \/ \E i \in TaskIds : UnitResume(i)
    \/ \E i \in TaskIds, sw \in BOOLEAN : UnitCancelled(i, sw)

\* The event loop runs every ready unit, asyncio.Semaphore wakes its waiters
\* in turn once it is released, and the timer of asyncio.wait_for fires
\* unless the run ends first.
TerminationSpec ==
    /\ Init
    /\ [][NextTermination]_vars
    /\ \A i \in TaskIds : WF_vars(GateStep(i)) /\ WF_vars(TimerFires(i))

\* The event loop runs every ready task and fires every due timer: a unit
\* that can take a step takes it, and the timer of asyncio.wait_for, set to
\* the finite settings.TASK_TIMEOUT_MINUTES * 60, fires unless the run ends
\* first.  Nothing obliges the engine's run to return or a client to call.
UnitStep(task_id) ==
    \/ UnitCancelledUnstarted(task_id)
    \/ \E llm_ok \in BOOLEAN, agent_ok \in BOOLEAN : UnitBegin(task_id, llm_ok, agent_ok)
    \/ UnitResume(task_id)
    \/ \E sw \in BOOLEAN : UnitCancelled(task_id, sw)

Fairness ==
    \A i \in TaskIds : WF_vars(UnitStep(i)) /\ WF_vars(TimerFires(i))

FairSpec == Init /\ [][Next]_vars /\ Fairness

TypeOK ==
    /\ Len(tasks) <= NumTasks
    /\ \A i \in DOMAIN tasks : tasks[i].status \in TaskStatus /\ tasks[i].user_id \in Users
    /\ active_tasks \subseteq DOMAIN tasks
    /\ browser_sessions \subseteq DOMAIN tasks
    /\ task_agents \subseteq DOMAIN tasks

\* ---------------------------------------------------------------- properties
\* the step just taken is the manager call op(user_id, task_id)
Called(op, user_id, task_id) ==
    last'.op = op /\ last'.user = user_id /\ last'.task = task_id

LastStep(task) == task.steps[Len(task.steps)]

LiveUnits == {i \in TaskIds : Live(i)}

\* the status graph of the manager
Graph ==
    {<<CREATED, RUNNING>>, <<RUNNING, FINISHED>>, <<RUNNING, FAILED>>,
     <<RUNNING, STOPPED>>, <<RUNNING, PAUSED>>, <<PAUSED, RUNNING>>,
     <<RUNNING, STOPPING>>, <<STOPPING, STOPPED>>}

\* C1: every change of a task's status, by a manager call or by a step of its
\* Execution Unit, is an edge of the status graph.
C1_StatusChangesFollowGraph ==
    [][\A i \in DOMAIN tasks :
          tasks'[i].status # tasks[i].status
              => <<tasks[i].status, tasks'[i].status>> \in Graph]_vars

\* C2: start on a task that is not CREATED, pause on a task that is not
\* RUNNING or cannot pause, and stop on a task that is neither RUNNING nor
\* STOPPING fail with invalid-transition and leave the task's status, its
\* steps and the in-flight set unchanged.
C2_RejectedCallsChangeNothing ==
    [][\A u \in Users, i \in DOMAIN tasks :
          ( /\ has_task(u, i)
            /\ \/ Called("start", u, i) /\ tasks[i].status # CREATED
               \/ Called("pause", u, i) /\ (tasks[i].status # RUNNING \/ ~tasks[i].can_pause)
               \/ Called("stop", u, i) /\ tasks[i].status \notin {RUNNING, STOPPING} )
              => /\ last'.result = "invalid_transition"
                 /\ tasks'[i].status = tasks[i].status
                 /\ tasks'[i].steps = tasks[i].steps
                 /\ active_tasks' = active_tasks]_vars

\* a stop was just rejected on a PAUSED task whose unit is still in flight
C2_Witness ==
    /\ last.op = "stop"
    /\ last.result = "invalid_transition"
    /\ last.task \in DOMAIN tasks
    /\ tasks[last.task].status = PAUSED
    /\ last.task \in active_tasks

\* C3: resume on a PAUSED task succeeds, sets the status to RUNNING and
\* appends a "resumed" step.
C3_ResumeSetsRunning ==
    [][\A u \in Users, i \in DOMAIN tasks :
          (has_task(u, i) /\ Called("resume", u, i) /\ tasks[i].status = PAUSED)
              => /\ last'.result = "ok"
                 /\ tasks'[i].status = RUNNING
                 /\ LastStep(tasks'[i]).action = "resumed"]_vars

\* C4: resume on an existing task that is not PAUSED fails with
\* invalid-transition and leaves the status unchanged.
C4_ResumeRejectedUnlessPaused ==
    [][\A u \in Users, i \in DOMAIN tasks :
          (has_task(u, i) /\ Called("resume", u, i) /\ tasks[i].status # PAUSED)
              => /\ last'.result = "invalid_transition"
                 /\ tasks'[i].status = tasks[i].status]_vars

\* C5: once a task is FINISHED, FAILED or STOPPED its status never changes.
C5_TerminalStatusIsFinal ==
    [][\A i \in DOMAIN tasks :
          is_completed(tasks[i]) => tasks'[i].status = tasks[i].status]_vars

\* C6: finished_at is written exactly once, at the first entry to a terminal
\* status, and never again.
C6_FinishedAtWrittenOnce ==
    \A i \in DOMAIN tasks :
        /\ tasks[i].finished_at <= 1
        /\ is_completed(tasks[i]) => tasks[i].finished_at = 1

\* C7: when the in-flight count over all owners has reached the ceiling,
\* start on a CREATED task fails with resource-exhausted, spawns no unit,
\* leaves the task as it was and leaves the in-flight set and count unchanged.
C7_StartRejectedAtCeiling ==
    [][\A u \in Users, i \in DOMAIN tasks :
          ( /\ has_task(u, i)
            /\ Called("start", u, i)
            /\ tasks[i].status = CREATED
            /\ Cardinality({j \in active_tasks : ~done(j)}) >= max_concurrent_tasks )
              => /\ last'.result = "resource_exhausted"
                 /\ unit' = unit
                 /\ unit'[i] = NoUnit
                 /\ tasks'[i] = tasks[i]
                 /\ active_tasks' = active_tasks
                 /\ active_count' = active_count]_vars

\* a start was just rejected while every in-flight unit belongs to another owner
C7_Witness ==
    /\ last.op = "start"
    /\ last.result = "resource_exhausted"
    /\ active_tasks # {}
    /\ \A j \in active_tasks : tasks[j].user_id # last.user
    /\ tasks[last.task].status = CREATED

\* C8: the number of units spawned and not yet terminated never exceeds the
\* ceiling.
C8_LiveUnitsWithinCeiling ==
    Cardinality(LiveUnits) <= max_concurrent_tasks

\* C9: with the ceiling reached, a successful stop leaves the task STOPPED and
\* the in-flight count one below the ceiling, and a start of a CREATED task
\* that immediately follows a successful stop is admitted: the started task is
\* RUNNING and the stopped one still STOPPED.
C9_StopFreesASlot ==
    [][\A u \in Users, i \in DOMAIN tasks :
          /\ ( /\ Called("stop", u, i)
               /\ last'.result = "ok"
               /\ active_count = max_concurrent_tasks )
                 => /\ tasks'[i].status = STOPPED
                    /\ active_count' = max_concurrent_tasks - 1
          /\ ( /\ last.op = "stop"
               /\ last.result = "ok"
               /\ has_task(u, i)
               /\ Called("start", u, i)
               /\ tasks[i].status = CREATED )
                 => /\ last'.result = "ok"
                    /\ tasks'[i].status = RUNNING
                    /\ i \in active_tasks'
                    /\ tasks'[last.task].status = STOPPED]_vars

\* a start was just admitted while the unit of a STOPPED task is still alive:
\* the slot it took is the one the stop freed
C9_Witness ==
    /\ last.op = "start"
    /\ last.result = "ok"
    /\ tasks[last.task].status = RUNNING
    /\ active_count = max_concurrent_tasks
    /\ \E j \in DOMAIN tasks : j # last.task /\ tasks[j].status = STOPPED /\ Live(j)

\* C10: the cleanup of a started task runs exactly once, however its unit ends.
C10_CleanupRunsExactlyOnce ==
    \A i \in TaskIds :
        /\ cleanup_runs[i] <= 1
        /\ unit[i].pc = "done" => cleanup_runs[i] = 1

\* C11: an Execution Unit that has terminated, by whichever path (result,
\* early return after a failed agent creation, exception, timeout,
\* cancellation), has its task id absent from the in-flight set, and the id
\* stays absent from then on.
C11_TerminatedUnitLeavesInFlightSet ==
    \A i \in TaskIds : unit[i].pc = "done" => i \notin active_tasks

\* a unit ended by the early return that follows a failed agent creation
C11_Witness ==
    \E i \in DOMAIN tasks :
        /\ unit[i].pc = "done"
        /\ tasks[i].error = AGENT_ERROR
        /\ i \notin active_tasks

\* the steps with which _execute_task records a failure it caught
FailureSteps == {"agent_error", "error", "timeout", "fatal_error"}

TimedOutAndCleaned(i) ==
    /\ unit[i].pc = "done"
    /\ unit[i].outcome = "timeout"
    /\ tasks[i].status = FAILED
    /\ tasks[i].error = TIMEOUT_ERROR
    /\ LastStep(tasks[i]) = TaskStep("timeout", TIMEOUT_ERROR)
    /\ TIMEOUT_ERROR \notin {ENGINE_ERROR, NO_RESULT_ERROR}
    /\ cleanup_runs[i] > 0
    /\ i \notin active_tasks

\* C13: a unit waiting for its engine's run, when the run never returns and
\* no stop cancels the unit, eventually times out: the task reaches FAILED
\* with the timeout error and a "timeout" step (not the generic "error"
\* step), cleanup has run and the unit is out of the in-flight set.
C13_TimeoutEventuallyFails ==
    \A i \in TaskIds :
        (unit[i].pc = "waiting")
            ~> \/ TimedOutAndCleaned(i)
               \/ unit[i].outcome \in Outcomes
               \/ unit[i].must_cancel

\* a task that timed out while PAUSED
C13_Witness ==
    \E i \in DOMAIN tasks :
        /\ TimedOutAndCleaned(i)
        /\ ~unit[i].must_cancel
        /\ \E k \in DOMAIN tasks[i].steps : tasks[i].steps[k].action = "paused"

\* C14: a stop on a task that is RUNNING or STOPPING succeeds: it requests
\* the cancellation of the task's unit, runs cleanup once, appends a
\* "stopping" step and then a "stopped" step, and when it returns the task is
\* STOPPED and its id is not in the in-flight set.
C14_StopCancelsCleansAndStops ==
    [][\A u \in Users, i \in DOMAIN tasks :
          ( /\ has_task(u, i)
            /\ Called("stop", u, i)
            /\ tasks[i].status \in {RUNNING, STOPPING} )
              => /\ last'.result = "ok"
                 /\ Live(i) => unit'[i].must_cancel /\ unit'[i].pc = unit[i].pc
                 /\ cleanup_runs'[i] = cleanup_runs[i] + 1
                 /\ tasks'[i].steps = tasks[i].steps
                        \o <<TaskStep("stopping", None), TaskStep("stopped", None)>>
                 /\ tasks'[i].status = STOPPED
                 /\ i \notin active_tasks']_vars

\* a stop has just returned while the unit it cancelled is still suspended in
\* its run
C14_Witness ==
    /\ last.op = "stop"
    /\ last.result = "ok"
    /\ tasks[last.task].status = STOPPED
    /\ LastStep(tasks[last.task]).action = "stopped"
    /\ unit[last.task].pc = "waiting"
    /\ unit[last.task].must_cancel
    /\ last.task \notin active_tasks

\* C15: pause on a RUNNING task that can pause changes only the task's status,
\* to PAUSED, and its steps, by one "paused" step.  The task's unit is neither
\* cancelled nor removed: it stays in the in-flight set, still counts toward
\* the ceiling, and while the task is PAUSED it stays live and goes on with
\* its run whenever it is ready.
C15_PauseOnlyChangesStatus ==
    /\ [][\A u \in Users, i \in DOMAIN tasks :
            ( /\ has_task(u, i)
              /\ Called("pause", u, i)
              /\ tasks[i].status = RUNNING
              /\ tasks[i].can_pause )
                => /\ last'.result = "ok"
                   /\ tasks' = [tasks EXCEPT
                                   ![i].status = PAUSED,
                                   ![i].steps = Append(@, TaskStep("paused", None))]
                   /\ unit' = unit
                   /\ Live(i) /\ ~unit'[i].must_cancel
                   /\ i \in active_tasks /\ active_tasks' = active_tasks
                   /\ active_count' = active_count
                   /\ task_agents' = task_agents
                   /\ browser_sessions' = browser_sessions
                   /\ cleanup_runs' = cleanup_runs]_vars
    /\ [](\A i \in DOMAIN tasks :
            tasks[i].status = PAUSED
                => /\ Live(i)
                   /\ i \in active_tasks
                   /\ unit[i].pc # "waiting" => ENABLED UnitStep(i)
                   /\ unit[i].pc = "waiting" => ENABLED TimerFires(i))

\* a pause has just returned with the ceiling reached by the paused task's
\* unit, which is suspended in its run
C15_Witness ==
    /\ last.op = "pause"
    /\ last.result = "ok"
    /\ tasks[last.task].status = PAUSED
    /\ unit[last.task].pc = "waiting"
    /\ last.task \in active_tasks
    /\ active_count = max_concurrent_tasks

\* C16: create succeeds whatever provider is requested.  When the provider is
\* unknown to the environment or not configured in it, the task is stored
\* CREATED with the configured default provider and default model; when the
\* provider is available, it is stored CREATED with the provider and the
\* model of the request.
C16_CreateFallsBackToDefaults ==
    [][\A u \in Users, c \in LLMConfigs, a \in AvailableProviders :
          CreateTask(u, c, a)
              => /\ last'.result = "ok"
                 /\ Len(tasks') = Len(tasks) + 1
                 /\ last'.task = Len(tasks')
                 /\ tasks'[last'.task].user_id = u
                 /\ tasks'[last'.task].status = CREATED
                 /\ IF c.provider \in KnownProviders /\ a[c.provider]
                      THEN tasks'[last'.task].llm_config = c
                      ELSE tasks'[last'.task].llm_config =
                             [provider |-> DEFAULT_LLM_PROVIDER, model |-> DEFAULT_MODEL]]_vars

\* the store holds a task created with the defaults in place of its request
\* and a task that kept a provider other than the default one
C16_Witness ==
    /\ Len(tasks) = 2
    /\ \E i, j \in DOMAIN tasks :
          /\ tasks[i].llm_config = [provider |-> DEFAULT_LLM_PROVIDER, model |-> DEFAULT_MODEL]
          /\ tasks[i].status = CREATED
          /\ tasks[j].llm_config.provider = "anthropic"
          /\ tasks[j].status = CREATED

\* C17: a start that passes the status check and the admission check does,
\* in one step, spawn one unit for the task (and none for another task),
\* register it in the in-flight set, set the task RUNNING and append a
\* "started" step.  A unit is spawned by a successful start only, and a task
\* that has had a unit never has a start succeed again: of all the start
\* calls on one task at most one succeeds and at most one unit is ever
\* spawned for it.
C17_StartSpawnsOneUnit ==
    [][\A i \in DOMAIN tasks :
          /\ \A u \in Users :
                (Called("start", u, i) /\ last'.result = "ok")
                    => /\ has_task(u, i)
                       /\ tasks[i].status = CREATED
                       /\ unit[i].pc = "none"
                       /\ unit' = [unit EXCEPT ![i] = [NoUnit EXCEPT !.pc = "spawned"]]
                       /\ i \notin active_tasks
                       /\ active_tasks' = active_tasks \cup {i}
                       /\ tasks' = [tasks EXCEPT
                                       ![i].status = RUNNING,
                                       ![i].started_at = 1,
                                       ![i].steps = Append(@, TaskStep("started", None))]
          /\ (unit'[i].pc = "spawned" /\ unit[i].pc # "spawned")
                => /\ last'.op = "start" /\ last'.task = i /\ last'.result = "ok"
                   /\ unit[i].pc = "none"
          /\ unit[i].pc # "none"
                => /\ unit'[i].pc # "none"
                   /\ ~(last'.op = "start" /\ last'.task = i /\ last'.result = "ok")]_vars

\* a second start on a task has just been rejected while the unit spawned by
\* the first has not yet taken a step
C17_Witness ==
    /\ last.op = "start"
    /\ last.result = "invalid_transition"
    /\ tasks[last.task].status = RUNNING
    /\ unit[last.task].pc = "spawned"
    /\ last.task \in active_tasks

\* the calls of start_task: by the start endpoint and by the background work
\* of the create-and-run endpoint
StartOps == {"start", "background_start"}

\* C18: a start rejected by admission control, issued by a client or in the
\* background by create-and-run, leaves the task CREATED with no unit and
\* schedules nothing: a background start is scheduled only when its task is
\* created and is gone once it has run.  A CREATED task has no unit, and it
\* gets one (and leaves CREATED) only in the step of a start call that is
\* admitted.
C18_RejectedStartIsNotQueued ==
    [][\A i \in TaskIds :
          /\ (last'.op \in StartOps /\ last'.task = i /\ last'.result = "resource_exhausted")
                => /\ tasks[i].status = CREATED
                   /\ tasks' = tasks
                   /\ unit[i] = NoUnit
                   /\ unit' = unit
                   /\ active_tasks' = active_tasks
                   /\ background_tasks' \subseteq background_tasks
          /\ (last'.op = "background_start" /\ last'.task = i)
                => /\ <<last'.user, i>> \in background_tasks
                   /\ background_tasks' = background_tasks \ {<<last'.user, i>>}
          /\ \A u \in Users :
                (<<u, i>> \in background_tasks' /\ <<u, i>> \notin background_tasks)
                    => /\ i \notin DOMAIN tasks
                       /\ last'.op = "create" /\ last'.task = i /\ last'.user = u
          /\ (i \in DOMAIN tasks /\ tasks[i].status = CREATED)
                => /\ unit[i] = NoUnit
                   /\ i \notin active_tasks
                   /\ (tasks'[i].status # CREATED \/ unit'[i] # NoUnit)
                        => /\ last'.op \in StartOps
                           /\ last'.task = i
                           /\ last'.result = "ok"]_vars

\* the background start of a create-and-run call has just been rejected at
\* the ceiling: nothing is scheduled any more and the task is CREATED with no unit
C18_Witness ==
    /\ last.op = "background_start"
    /\ last.result = "resource_exhausted"
    /\ background_tasks = {}
    /\ tasks[last.task].status = CREATED
    /\ unit[last.task] = NoUnit
    /\ last.task \notin active_tasks

\* an endpoint that answers with a non-success status, or a transport that fails
WebhookFails(reply) == reply.error # None \/ reply.status >= 400

\* the content of a result is one of the two failure messages
FailureMessage(content) ==
    /\ Len(content) >= 2
    /\ content[1] \in {"Webhook error: ", "Function execution failed: "}

FailureResult(result) ==
    /\ result.kind = "return"
    /\ FailureMessage(result.value.extracted_content)
    /\ result.value.include_in_memory = FALSE

\* C19: a webhook custom action whose endpoint answers with a non-success
\* status or whose transport fails, and a code custom action whose body
\* raises, each return an ActionResult whose content is a failure message and
\* whose include_in_memory is false; no exception reaches the engine, and the
\* call changes neither the task nor its unit, whose run goes on.
C19_FailedActionReturnsFailureResult ==
    [][/\ last'.op = "webhook_function" /\ WebhookFails(last'.environment)
           => /\ FailureResult(last'.result)
              /\ tasks' = tasks
              /\ unit' = unit
       /\ last'.op = "code_function" /\ last'.environment = "raises"
           => /\ FailureResult(last'.result)
              /\ tasks' = tasks
              /\ unit' = unit]_vars

\* a task whose engine called both kinds of action, the webhook action
\* answered with status 500 while the action wants its results in memory
C19_Witness ==
    /\ last.op = "webhook_function"
    /\ last.environment.error = None
    /\ last.environment.status = 500
    /\ last.config.include_in_memory
    /\ FailureResult(last.result)
    /\ unit[last.task].pc = "waiting"
    /\ tasks[last.task].status = RUNNING

HookOps == {"webhook_hook", "code_hook"}

\* C20: a failing lifecycle hook (webhook non-success response, transport
\* error, code body raising) aborts the run if and only if its
\* continue_on_error is false: then the hook raises, the run ends with that
\* exception, and when the unit resumes the task is failed with an error;
\* with continue_on_error true the hook returns and the run goes on with the
\* task unchanged.
C20_HookFailureAbortsIffNotContinue ==
    /\ [][/\ last'.op \in HookOps
           /\ (IF last'.op = "webhook_hook"
                   THEN WebhookFails(last'.environment)
                   ELSE last'.environment = "raises")
           => /\ (last'.result.kind = "raise") <=> ~last'.config.continue_on_error
              /\ (unit'[last'.task].pc = "run_done") <=> ~last'.config.continue_on_error
              /\ last'.config.continue_on_error => unit' = unit
              /\ tasks' = tasks]_vars
    /\ [](\A i \in TaskIds :
            /\ last.op \in HookOps
            /\ last.task = i
            /\ last.result.kind = "raise"
            => /\ unit[i].pc = "run_done"
               /\ unit[i].outcome \in {"exception", "timeout_error"})
    /\ [][\A i \in TaskIds :
            /\ unit[i].pc = "run_done"
            /\ unit[i].outcome \in {"exception", "timeout_error"}
            /\ unit'[i].pc # "run_done"
            => /\ tasks'[i].status = FAILED
               /\ tasks'[i].error # None
               /\ unit'[i].pc = "done"]_vars

\* a run ended by its code hook: the body raised, continue_on_error is false,
\* the hook raised and the unit has the run's exception to resume with
C20_Witness ==
    /\ last.op = "code_hook"
    /\ last.environment = "raises"
    /\ ~last.config.continue_on_error
    /\ last.result.kind = "raise"
    /\ unit[last.task].pc = "run_done"
    /\ unit[last.task].outcome = "exception"
    /\ tasks[last.task].status = RUNNING
\* the tasks secrets are declared for
Declared(i) == i \in DOMAIN tasks /\ tasks[i].agent_config.sensitive_data # {}

ReadOps == {"get_task_status", "list_tasks", "get_system_stats"}

C23_QueriesAreReadOnly ==
    [][last'.op \in ReadOps => UNCHANGED Frame]_vars

\* a page of two tasks was listed while a unit was live
C23_Witness ==
    /\ last.op = "list_tasks"
    /\ Len(last.result) = 2
    /\ \E i \in DOMAIN tasks : Live(i) /\ i \in active_tasks

\* C24: tasks are keyed per owner: start, stop, pause, resume and
\* get_task_status called with a user other than the one the task was created
\* under return not-found and leave that task, its unit and the in-flight set
\* unchanged; list_tasks for a user returns only tasks created under that user.
OwnerOps == {"start", "stop", "pause", "resume", "get_task_status"}

C24_TasksAreKeyedPerOwner ==
    [][/\ (/\ last'.op \in OwnerOps
           /\ last'.task \in DOMAIN tasks
           /\ tasks[last'.task].user_id # last'.user)
          => /\ last'.result = "not_found"
             /\ tasks'[last'.task] = tasks[last'.task]
             /\ unit'[last'.task] = unit[last'.task]
             /\ active_tasks' = active_tasks
       /\ last'.op = "list_tasks"
          => \A k \in 1..Len(last'.result) :
                tasks[last'.result[k]].user_id = last'.user]_vars

\* another user's stop of a running task was answered not-found
C24_Witness ==
    /\ last.op = "stop"
    /\ last.result = "not_found"
    /\ last.task \in DOMAIN tasks
    /\ tasks[last.task].user_id # last.user
    /\ tasks[last.task].status = RUNNING
    /\ unit[last.task].pc = "waiting"
    /\ last.task \in active_tasks

\* C25: at most one unit is inside the construction section (holds the
\* construction gate) at any instant, however many tasks were started
\* together, and the gate's value counts the units inside; units that have
\* left the section may be in their run phase at the same time.
Constructing == {i \in TaskIds : unit[i].pc = "constructing"}

C25_OneUnitConstructsAtATime ==
    /\ Cardinality(Constructing) <= 1
    /\ semaphore \in {0, 1}

\* two units, each constructed inside the gate, are in their run phase together
C25_Witness ==
    /\ ceiling = 2
    /\ \A i \in TaskIds :
          /\ unit[i].pc = "waiting"
          /\ unit[i].run_begun
          /\ i \in task_agents
          /\ i \in active_tasks
    /\ Constructing = {}

\* C26: the construction gate is released after every construction attempt,
\* also when the construction raises and when the unit is cancelled while it
\* waits for the gate or holds it: the gate is free whenever no unit is
\* constructing, and every unit waiting for the gate eventually acquires it,
\* unless a stop cancels the unit first.
C26_GateAlwaysReleased ==
    /\ [](semaphore = 1 - Cardinality(Constructing))
    /\ \A i \in TaskIds : (unit[i].pc = "gate_wait")
                              ~> (unit[i].pc = "constructing" \/ unit[i].must_cancel)

\* a construction raised while another unit waited for the gate, which is free
C26_Witness ==
    \E i, j \in DOMAIN tasks :
        /\ unit[i].pc = "done"
        /\ tasks[i].status = FAILED
        /\ tasks[i].error = AGENT_ERROR
        /\ unit[j].pc = "gate_wait"
        /\ ~locked(semaphore)

\* C27: after a task's unit has terminated and its cleanup has run, the
\* manager holds no session entry and no agent entry for that task, whether
\* the run completed, failed, timed out or was stopped.
C27_NoEntriesAfterCleanup ==
    \A i \in DOMAIN tasks :
        unit[i].pc = "done" /\ cleanup_runs[i] > 0
            => i \notin browser_sessions /\ i \notin task_agents

\* C28: when creating the LLM fails, the unit appends a failed step, sets the
\* task FAILED with the error attached, never enters the construction of the
\* Agent (the gate is not acquired, no Agent is registered) nor the run, does
\* not try again, and still runs its cleanup.
StepActions(task) == {task.steps[k].action : k \in DOMAIN task.steps}

ConstructionSteps == {"llm_created", "agent_init", "agent_created", "execution_start"}

C28_LLMFailureFailsWithoutConstruction ==
    /\ [][\A i \in DOMAIN tasks :
             "llm_error" \in StepActions(tasks'[i]) /\ "llm_error" \notin StepActions(tasks[i])
             => /\ tasks'[i].status = FAILED
                /\ tasks'[i].error = FATAL_ERROR
                /\ LastStep(tasks'[i]) = TaskStep("fatal_error", FATAL_ERROR)
                /\ semaphore' = semaphore
                /\ i \notin task_agents'
                /\ i \notin active_tasks'
                /\ cleanup_runs'[i] = cleanup_runs[i] + 1
                /\ unit'[i].pc = "done"]_vars
    /\ [](\A i \in DOMAIN tasks :
             "llm_error" \in StepActions(tasks[i])
             => /\ unit[i].pc = "done"
                /\ tasks[i].status = FAILED
                /\ StepActions(tasks[i]) \cap ConstructionSteps = {}
                /\ Cardinality({k \in DOMAIN tasks[i].steps :
                                    tasks[i].steps[k].action = "llm_init"}) = 1)

\* a unit whose LLM could not be created has failed its task and cleaned up
C28_Witness ==
    \E i \in DOMAIN tasks :
        /\ TaskStep("llm_error", LLM_EXCEPTION) \in {tasks[i].steps[k] : k \in DOMAIN tasks[i].steps}
        /\ tasks[i].status = FAILED
        /\ unit[i].pc = "done"
        /\ cleanup_runs[i] = 1
        /\ i \notin active_tasks

Succeeds(value) == value \notin {ABSENT, RAISES}

FirstThatSucceeds(result) ==
    IF Succeeds(result.final_result) THEN result.final_result
    ELSE IF Succeeds(result.extracted_content) /\ result.extracted_content # ""
        THEN result.extracted_content
    ELSE STR_RESULT

C30_FirstAccessorThatSucceedsWins ==
    [][\A i \in TaskIds :
          /\ unit[i].pc = "run_done" /\ unit[i].outcome = "result"
          /\ unit[i].result.truthy
          /\ ~tasks[i].agent_config.controller_config.present
          /\ unit'[i].pc = "done"
          => tasks'[i].result = FirstThatSucceeds(unit[i].result)]_vars

\* C31: the auxiliary history fields (urls, action names, done flag, error
\* flag, errors) are read independently: when reading one of them raises, the
\* fields whose accessors succeed are still stored in the task's history, and
\* the task still finishes.
C31_HistoryFieldsReadIndependently ==
    [][\A i \in TaskIds :
          /\ unit[i].pc = "run_done" /\ unit[i].outcome = "result"
          /\ unit[i].result.truthy
          /\ unit'[i].pc = "done"
          => /\ tasks'[i].history =
                    {f \in HistoryFields : unit[i].result.history[f] = "value"}
             /\ tasks'[i].status = FINISHED]_vars

\* C32: profile resolution: when the creation request declares a full
\* profile, that profile is the one the run is built with, unchanged; when it
\* declares only the legacy flat browser configuration, the run is built with
\* the profile derived from that flat configuration.
Declares(task_create) == task_create.has_config \/ task_create.has_profile

C32_DeclaredProfileIsUsed ==
    [][\A u \in OneUser, task_create \in TaskCreates :
          CreateTaskRequest(u, task_create) /\ Declares(task_create)
          => resolve_browser_profile(tasks'[Len(tasks')]) =
                IF task_create.has_profile THEN task_create.browser_profile
                ELSE to_browser_profile(task_create.browser_config)]_vars

\* C33: in every reachable state in which a task has both started_at and
\* finished_at set, execution_time_seconds is finished_at minus started_at;
\* started_at is set at the first entry to RUNNING and never changes afterwards.
C33_ExecutionTimeIsTheDifference ==
    /\ [](\A i \in DOMAIN tasks :
             tasks[i].started_at # 0 /\ tasks[i].finished_at # 0
             => tasks[i].execution_time_seconds =
                    duration(tasks[i].finished_at, tasks[i].started_at))
    /\ [](\A i \in DOMAIN tasks :
             tasks[i].started_at = 0
             <=> tasks[i].status = CREATED /\ "started" \notin StepActions(tasks[i]))
    /\ [][\A i \in DOMAIN tasks :
             tasks[i].started_at # 0 => tasks'[i].started_at = tasks[i].started_at]_vars

\* a started task whose finished_at was written twice (stopped, then ended by its unit)
C33_Witness ==
    \E i \in DOMAIN tasks :
        /\ tasks[i].started_at = 1
        /\ tasks[i].finished_at = 2
        /\ tasks[i].execution_time_seconds = duration(2, 1)

\* C34: a secret domain is covered by an allowed pattern "*.base" exactly
\* when it equals base or ends with ".base" (a subdomain is covered, a domain
\* that merely ends with the letters of base is not); a pattern without a
\* wildcard covers only the identical domain; a domain covered by no pattern
\* is reported in the warning.  (Domain and pattern are taken without their
\* protocol, which the validation removes from both.)
HasSuffix(text, suffix) ==
    \E k \in 1..(Len(text) + 1) : SubSeq(text, k, Len(text)) = suffix

C34_WildcardCoversBaseAndSubdomains ==
    last.op = "validate_sensitive_data_domains"
    => LET domain == strip_protocol(last.domain)
           pattern == strip_protocol(last.pattern)
           wildcard == Len(pattern) >= 2 /\ pattern[1] = "*" /\ pattern[2] = "."
           plain == \A k \in 1..Len(pattern) : pattern[k] # "*"
       IN /\ wildcard
                => (last.matches <=>
                       LET base == Tail(Tail(pattern))
                       IN domain = base \/ HasSuffix(domain, <<".">> \o base))
          /\ plain => (last.matches <=> domain = pattern)
          /\ last.domain \in last.warning
                <=> ~\E p \in {last.pattern} \cup last.others :
                        domain_matches_pattern(last.domain, p)
          /\ last.warning \subseteq {last.domain}

\* "aa" ends with the letters of the base "a" of "*.a" but is no subdomain of
\* it: not covered, and reported
C34_Witness ==
    /\ last.op = "validate_sensitive_data_domains"
    /\ last.pattern = <<"*", ".", "a">>
    /\ last.domain = <<"a", "a">>
    /\ last.others = {<<"b">>}
    /\ ~last.matches
    /\ last.warning = {<<"a", "a">>}

\* C35: a task's failure is recorded as the timeout kind (the timeout text
\* and a "timeout" step) if and only if the wall-clock timer of its run fired:
\* a TimeoutError raised inside the run, as by a hook webhook that times out
\* with continue_on_error false, is recorded as a generic failure.
C35_TimeoutKindIffTimerFired ==
    [][\A i \in TaskIds :
          /\ unit[i].pc = "run_done"
          /\ unit'[i].pc = "done"
          /\ tasks'[i].status = FAILED
          => ((/\ tasks'[i].error = TIMEOUT_ERROR
               /\ LastStep(tasks'[i]).action = "timeout")
              <=> unit[i].outcome = "timeout")]_vars

\* C36: every started task eventually reaches FINISHED, FAILED or STOPPED
\* when the run timer fires and the construction gate is fair; in particular
\* a task whose unit has terminated does not stay RUNNING, PAUSED or STOPPING.
C36_StartedTasksTerminate ==
    \A i \in TaskIds :
        /\ (i \in DOMAIN tasks /\ tasks[i].status \in {RUNNING, PAUSED, STOPPING})
               ~> (i \in DOMAIN tasks /\ tasks[i].status \in {FINISHED, FAILED, STOPPED})
        /\ (unit[i].pc = "done")
               ~> (i \in DOMAIN tasks /\ tasks[i].status \in {FINISHED, FAILED, STOPPED})

\* both tasks were started and both units have terminated: one task was
\* stopped, the other was paused and finished by its unit
C36_Witness ==
    \E i, j \in DOMAIN tasks :
        /\ unit[i].pc = "done"
        /\ unit[j].pc = "done"
        /\ tasks[i].status = STOPPED
        /\ tasks[j].status = FINISHED
        /\ \E k \in DOMAIN tasks[j].steps : tasks[j].steps[k].action = "paused"

\* a user's tasks that have the status, in insertion order
MatchingTasks(user_id, status_filter) ==
    LET ids == [i \in 1..Len(tasks) |-> i]
        matching(i) == tasks[i].user_id = user_id /\ tasks[i].status = status_filter
    IN SelectSeq(ids, matching)

\* C37: list(owner, page, pageSize, statusFilter) with a status filter
\* returns the page-th slice of size pageSize of the owner's tasks that have
\* that status: the pages together hold every matching task once, and no page
\* is short while matching tasks remain on later pages.  (list_tasks changes
\* nothing, so the state it leaves holds the tasks it read.)
C37_FilteredListIsPagedAfterFiltering ==
    \A page \in Pages, page_size \in PageSizes, status_filter \in StatusFilters \ {None} :
        /\ last.op = "list_tasks"
        /\ last.result = list_tasks(last.user, page, page_size, status_filter)
        => last.result = slice(MatchingTasks(last.user, status_filter),
                               (page - 1) * page_size,
                               (page - 1) * page_size + page_size)

\* C38: on application shutdown every task in the manager's in-flight set is
\* stopped, whichever owner it belongs to: its unit is cancelled and its
\* status is set to STOPPED.
C38_ShutdownStopsEveryInFlightTask ==
    [][last'.op = "shutdown"
       => \A i \in active_tasks :
             /\ tasks'[i].status = STOPPED
             /\ ~done(i) => unit'[i].must_cancel]_vars

====
